---------------------------- MODULE Spec2Model ----------------------------
(***************************************************************************)
(* Model of the transaction analytics core of transaction-risk-api:        *)
(* TransactionRiskModel.analyze_transactions and its five stages           *)
(* (src/transaction_risk_model.py).                                        *)
(*                                                                         *)
(* Numbers.  Amounts are naturals counted in units of 1e-6, so that the    *)
(* additive guard 1e-6 of the code is the integer Eps = 1.  Values the     *)
(* code rounds are kept as integers in the unit of the rounding: ratios,   *)
(* volatilities and the consistency score in thousandths (round(x, 3)),    *)
(* scores in tenths (round(x, 1)).  Unrounded quotients of amounts are     *)
(* exact rationals <<numerator, denominator>>.  A square root is carried   *)
(* to six decimals, truncated (FxOne = 10^6 is 1.0).                       *)
(***************************************************************************)
EXTENDS Integers, Sequences, FiniteSets, TLC

VARIABLES
    model,          \* the TransactionRiskModel object: its three fields
    transactions,   \* the caller's transaction list handed to every call
    results,        \* the MLAnalysisResult (or exception) of each call so far
    clock,          \* datetime.utcnow(), advancing from call to call
    delivery,       \* one call of WebhookService.send_webhook
    store,          \* the rows of the ml_results table
    request,        \* one request to /api/analyze or /api/webhook
    calls           \* the calls running at once on the one model

vars == <<model, transactions, results, clock, delivery, store, request, calls>>

-----------------------------------------------------------------------------
(* Integer and rational arithmetic                                         *)

Max(a, b) == IF a >= b THEN a ELSE b

Min(a, b) == IF a <= b THEN a ELSE b

Abs(a) == IF a < 0 THEN -a ELSE a

RECURSIVE GCD(_, _)
GCD(a, b) == IF b = 0 THEN a ELSE GCD(b, a % b)

LCM(a, b) == (a \div GCD(a, b)) * b

\* The rational n/d in lowest terms, d > 0.
Rat(n, d) ==
    LET g == GCD(Abs(n), d)
    IN  IF g = 0 THEN <<0, 1>> ELSE <<n \div g, d \div g>>

RatAdd(p, q) ==
    LET l == LCM(p[2], q[2])
    IN  Rat(p[1] * (l \div p[2]) + q[1] * (l \div q[2]), l)

RatNeg(p) == <<-p[1], p[2]>>

RatSub(p, q) == RatAdd(p, RatNeg(q))

\* p * (n/d), n and d integers, d > 0
RatScale(p, n, d) ==
    LET a == Rat(p[1], d)
        b == Rat(n, p[2])
    IN  Rat(a[1] * b[1], a[2] * b[2])

RECURSIVE QuotientLess(_, _, _, _)
\* a/b < c/d for b, d > 0, by the integer parts and then the remainders
QuotientLess(a, b, c, d) ==
    LET fa == a \div b
        fc == c \div d
        ra == a - fa * b
        rc == c - fc * d
    IN  IF fa # fc THEN fa < fc
        ELSE IF rc = 0 THEN FALSE
        ELSE IF ra = 0 THEN TRUE
        ELSE QuotientLess(d, rc, b, ra)

RatLess(p, q) == QuotientLess(p[1], p[2], q[1], q[2])

RatMax(p, q) == IF RatLess(p, q) THEN q ELSE p

RatMin(p, q) == IF RatLess(q, p) THEN q ELSE p

RatZero == <<0, 1>>

\* round(): the integer nearest to n/d (d > 0), a tie going to the even one.
RoundHalfEven(n, d) ==
    LET fl  == n \div d
        rem == n - fl * d
    IN  IF 2 * rem > d THEN fl + 1
        ELSE IF 2 * rem < d THEN fl
        ELSE IF fl % 2 = 0 THEN fl ELSE fl + 1

\* round(p, k) of a rational p, in units of 1/unit (unit = 10^k)
RatRound(p, unit) ==
    LET s == RatScale(p, unit, 1)
    IN  RoundHalfEven(s[1], s[2])

FxOne == 1000 * 1000

\* One step of the digit-by-digit square root: st = <<root, remainder>>,
\* pair = the next two decimal digits of the radicand.
SqrtStep(st, pair) ==
    LET cur == st[2] * 100 + pair
        d   == CHOOSE x \in 0..9 :
                   /\ (20 * st[1] + x) * x <= cur
                   /\ \A y \in (x + 1)..9 : (20 * st[1] + y) * y > cur
    IN  <<10 * st[1] + d, cur - (20 * st[1] + d) * d>>

RECURSIVE SqrtDigits(_, _, _)
SqrtDigits(st, pairs, zeros) ==
    IF pairs # <<>> THEN SqrtDigits(SqrtStep(st, Head(pairs)), Tail(pairs), zeros)
    ELSE IF zeros > 0 THEN SqrtDigits(SqrtStep(st, 0), pairs, zeros - 1)
    ELSE st

\* floor(sqrt(v) * 10^6) for 0 <= v < 10^6 (the steps stay within 32 bits
\* for the small v of the lists analysed here, sqrt(v) below 11)
SqrtFx(v) ==
    SqrtDigits(<<0, 0>>, <<v \div 10000, (v \div 100) % 100, v % 100>>, 6)[1]

-----------------------------------------------------------------------------
(* Sums                                                                    *)

RECURSIVE SumSet(_, _)
\* the sum of f[x] over the finite set S
SumSet(f, S) ==
    IF S = {} THEN 0
    ELSE LET x == CHOOSE y \in S : TRUE
         IN  f[x] + SumSet(f, S \ {x})

RECURSIVE RatSumSet(_, _)
RatSumSet(f, S) ==
    IF S = {} THEN RatZero
    ELSE LET x == CHOOSE y \in S : TRUE
         IN  RatAdd(f[x], RatSumSet(f, S \ {x}))

\* df[mask]['amount'].sum(): the amounts of the rows whose index is in I
AmountSum(df, I) == SumSet([i \in I |-> df[i].amount], I)

Rows(df) == 1..Len(df)

-----------------------------------------------------------------------------
(* Dates: a date is the day of the year 2024 (1 = Monday 2024-01-01)       *)

DaysInMonth == <<31, 29, 31, 30, 31, 30, 31, 31, 30, 31, 30, 31>>

MonthNames ==
    <<"2024-01", "2024-02", "2024-03", "2024-04", "2024-05", "2024-06",
      "2024-07", "2024-08", "2024-09", "2024-10", "2024-11", "2024-12">>

RECURSIVE MonthNumber(_, _)
\* the month holding day d, counting from month m
MonthNumber(d, m) ==
    IF d <= DaysInMonth[m] THEN m ELSE MonthNumber(d - DaysInMonth[m], m + 1)

\* date.strftime('%Y-%m')
Strftime(d) == MonthNames[MonthNumber(d, 1)]

\* the weekday counted from Sunday = 0
WeekdaySundayFirst(d) == d % 7

\* date.weekday(): Monday is 0
Weekday(d) == (d - 1) % 7

-----------------------------------------------------------------------------
(* Stage 1: _transactions_to_dataframe                                     *)

\* the label left as it was written
LowerIdentity(c) == c

\* str.lower() on the category labels of the model
Lower(c) ==
    CASE c = "Groceries" -> "groceries"
      [] c = "GAMBLING"  -> "gambling"
      [] OTHER           -> c

NormalizedRow(self, t) ==
    [date       |-> t.date,
     amount     |-> t.amount,
     type       |-> t.type,
     category   |-> Lower(t.category),
     weekday    |-> Weekday(t.date),
     month      |-> Strftime(t.date),
     is_weekend |-> Weekday(t.date) \in self.weekend_days]

RECURSIVE InsertByDate(_, _)
\* row r put into the date-sorted rows s, after the rows of the same date
InsertByDate(r, s) ==
    IF s = <<>> THEN <<r>>
    ELSE IF r.date < Head(s).date THEN <<r>> \o s
    ELSE <<Head(s)>> \o InsertByDate(r, Tail(s))

\* the rows left in the order of the list
SortValuesUnsorted(rows) == rows

RECURSIVE SortValues(_)
\* df.sort_values('date')
SortValues(rows) ==
    IF rows = <<>> THEN <<>>
    ELSE InsertByDate(rows[Len(rows)], SortValues(SubSeq(rows, 1, Len(rows) - 1)))

TransactionsToDataframe(self, txs) ==
    SortValues([i \in 1..Len(txs) |-> NormalizedRow(self, txs[i])])

-----------------------------------------------------------------------------
(* Stage 2: _calculate_financial_summary                                   *)

Eps == 1

\* df.groupby(['month', 'type'])['amount'].sum().unstack(fill_value=0)
MonthlyData(df) ==
    LET months == {df[i].month : i \in Rows(df)}
        types  == {df[i].type : i \in Rows(df)}
    IN  [index   |-> months,
         columns |-> types,
         cell    |-> [m \in months |-> [t \in types |->
                        AmountSum(df, {i \in Rows(df) :
                                         df[i].month = m /\ df[i].type = t})]]]

\* monthly_data.loc[month, col]: a KeyError when the label is missing
Loc(md, month, col) ==
    IF month \in md.index /\ col \in md.columns
    THEN [ok |-> TRUE, v |-> md.cell[month][col]]
    ELSE [ok |-> FALSE, v |-> 0]

\* the lookup without the test for the column
LocUnguarded(md, month, col) == Loc(md, month, col)

\* monthly_data.loc[month, col] if col in monthly_data.columns else 0
LocOrZero(md, month, col) ==
    IF col \in md.columns THEN Loc(md, month, col) ELSE [ok |-> TRUE, v |-> 0]

RECURSIVE GCDSet(_, _)
\* the greatest common divisor of f[x] over the finite set S (0 when all are 0)
GCDSet(f, S) ==
    IF S = {} THEN 0
    ELSE LET x == CHOOSE y \in S : TRUE
         IN  GCD(f[x], GCDSet(f, S \ {x}))

\* np.std(values) / (np.mean(values) + 1e-6) in millionths, truncated.
\* values is a function on a non-empty finite set; with n values of sum S,
\* std = sqrt(sum((n * x - S)^2) / n) / n and mean + Eps = (S + n * Eps) / n.
\* The values are counted in units of their greatest common divisor g, so
\* that the squares stay small: with x = g * u and U the sum of the u, the
\* quotient is A * g / (U * g + n * Eps) for A = sqrt(sum((n * u - U)^2) / n),
\* and A * g = q * (U * g + n * Eps) + (r * g - q * n * Eps) for A = q * U + r.
Volatility(values) ==
    LET K  == DOMAIN values
        n  == Cardinality(K)
        g  == GCDSet(values, K)
    IN  IF g = 0 THEN 0
        ELSE LET u  == [k \in K |-> values[k] \div g]
                 U  == SumSet(u, K)
                 sq == SumSet([k \in K |-> (n * u[k] - U) * (n * u[k] - U)], K)
                 A  == SqrtFx(sq \div n)
                 q  == A \div U
                 r  == A - q * U
             IN  q + ((r * g - q * n * Eps) \div (U * g + n * Eps))

\* the difference without the clamp at zero
MonthlySavingsUnclamped(income, spending) == income - spending

\* float(max(0, income - spending))
MonthlySavings(income, spending) == Max(0, income - spending)

CalculateFinancialSummary(df) ==
    LET monthly_data == MonthlyData(df)
        spending == [m \in monthly_data.index |-> LocOrZero(monthly_data, m, "debit").v]
        income   == [m \in monthly_data.index |-> LocOrZero(monthly_data, m, "credit").v]
        monthly_savings == [m \in monthly_data.index |-> MonthlySavings(income[m], spending[m])]
        income_volatility   == Volatility(income)
        spending_volatility == Volatility(spending)
        \* max(0, 1 - (iv + sv) / 2), as a numerator over 2 * FxOne
        consistency2 == Max(0, 2 * FxOne - (income_volatility + spending_volatility))
    IN  [monthly_spendings     |-> spending,
         monthly_savings       |-> monthly_savings,
         total_savings         |-> SumSet(monthly_savings, monthly_data.index),
         income_volatility     |-> RoundHalfEven(income_volatility, 1000),
         spending_volatility   |-> RoundHalfEven(spending_volatility, 1000),
         consistency_score     |-> RoundHalfEven(consistency2, 2000),
         transaction_frequency |-> Len(df)]

\* whether _calculate_financial_summary raises (a failed .loc lookup)
FinancialSummaryRaises(df) ==
    LET monthly_data == MonthlyData(df)
    IN  \E m \in monthly_data.index :
            \/ ~LocOrZero(monthly_data, m, "debit").ok
            \/ ~LocOrZero(monthly_data, m, "credit").ok

-----------------------------------------------------------------------------
(* Stage 3: _calculate_behavioral_analysis                                 *)

DebitRows(df) == {i \in Rows(df) : df[i].type = "debit"}

\* the quotient as a percentage with one decimal
RoundedRatioPercent(part, total) == RoundHalfEven(part * 1000 * 100, total)

\* round(part / total, 3), in thousandths
RoundedRatio(part, total) ==
    LET q == Rat(part, total)
    IN  RoundHalfEven(q[1] * 1000, q[2])

\* {category: round(amount / total_spending, 3)}, empty when nothing was spent
SpendingPatternDistribution(df) ==
    LET debit == DebitRows(df)
        categories == {df[i].category : i \in debit}
        spending_by_category ==
            [c \in categories |-> AmountSum(df, {i \in debit : df[i].category = c})]
        total_spending == SumSet(spending_by_category, categories)
    IN  IF total_spending > 0
        THEN [c \in categories |-> RoundedRatio(spending_by_category[c], total_spending)]
        ELSE <<>>

\* the rate with a test for a zero income in place of the added 1e-6
SavingsRateOrZero(income, spending) ==
    IF income = 0 THEN RatZero ELSE Rat(income - spending, income)

\* the rate of the clamped savings, never negative
SavingsRateClamped(income, spending) == Rat(Max(0, income - spending), income + Eps)

\* (income - spending) / (income + 1e-6), unrounded
SavingsRate(income, spending) == Rat(income - spending, income + Eps)

IncomeSpendingAnalysis(df) ==
    LET monthly_analysis == MonthlyData(df)
    IN  [m \in monthly_analysis.index |->
            LET income   == LocOrZero(monthly_analysis, m, "credit").v
                spending == LocOrZero(monthly_analysis, m, "debit").v
            IN  [income       |-> income,
                 spending     |-> spending,
                 savings_rate |-> SavingsRate(income, spending)]]

\* essential, high-risk and weekend share of the debit amount, in thousandths
BehavioralPatterns(self, df) ==
    LET debit == DebitRows(df)
        total_debit_amount == AmountSum(df, debit)
        essential_spending ==
            AmountSum(df, {i \in debit : df[i].category \in self.essential_categories})
        high_risk_spending ==
            AmountSum(df, {i \in debit : df[i].category \in self.high_risk_categories})
        weekend_spending == AmountSum(df, {i \in debit : df[i].is_weekend})
    IN  IF total_debit_amount > 0
        THEN [essential_spending_ratio |-> RoundedRatio(essential_spending, total_debit_amount),
              high_risk_spending_ratio |-> RoundedRatio(high_risk_spending, total_debit_amount),
              weekend_spending_ratio   |-> RoundedRatio(weekend_spending, total_debit_amount)]
        ELSE [essential_spending_ratio |-> 0,
              high_risk_spending_ratio |-> 0,
              weekend_spending_ratio   |-> 0]

\* the stability from the variation alone, also with fewer than 2 months
DetermineSpendingStabilityNoDefault(df) ==
    LET debit  == DebitRows(df)
        months == {df[i].month : i \in debit}
        monthly_spending ==
            [m \in months |-> AmountSum(df, {i \in debit : df[i].month = m})]
        cv == Volatility(monthly_spending)
    IN  IF 10 * cv < 2 * FxOne THEN "High"
        ELSE IF 10 * cv < 4 * FxOne THEN "Medium"
        ELSE "Low"

\* the stability over every month of the frame, a month without debits
\* counting as a month of zero spending
DetermineSpendingStabilityAllMonths(df) ==
    LET debit  == DebitRows(df)
        months == {df[i].month : i \in Rows(df)}
        monthly_spending ==
            [m \in months |-> AmountSum(df, {i \in debit : df[i].month = m})]
    IN  IF Cardinality(months) < 2 THEN "Medium"
        ELSE LET cv == Volatility(monthly_spending)
             IN  IF 10 * cv < 2 * FxOne THEN "High"
                 ELSE IF 10 * cv < 4 * FxOne THEN "Medium"
                 ELSE "Low"

\* _determine_spending_stability
DetermineSpendingStability(df) ==
    LET debit  == DebitRows(df)
        months == {df[i].month : i \in debit}
        monthly_spending ==
            [m \in months |-> AmountSum(df, {i \in debit : df[i].month = m})]
    IN  IF Cardinality(months) < 2 THEN "Medium"
        ELSE LET cv == Volatility(monthly_spending)
             IN  IF 10 * cv < 2 * FxOne THEN "High"
                 ELSE IF 10 * cv < 4 * FxOne THEN "Medium"
                 ELSE "Low"

CalculateBehavioralAnalysis(self, df) ==
    [spending_pattern_distribution |-> SpendingPatternDistribution(df),
     income_and_spending_analysis  |-> IncomeSpendingAnalysis(df),
     spending_stability            |-> DetermineSpendingStability(df),
     behavioral_patterns           |-> BehavioralPatterns(self, df)]

BehavioralAnalysisRaises(df) ==
    LET monthly_analysis == MonthlyData(df)
    IN  \E m \in monthly_analysis.index :
            \/ ~LocOrZero(monthly_analysis, m, "credit").ok
            \/ ~LocOrZero(monthly_analysis, m, "debit").ok

-----------------------------------------------------------------------------
(* Stage 4: _calculate_risk_assessment                                     *)

\* round(max(0, 50 - essential_spending_ratio * 50), 1), in tenths
RiskEssentialSpending(patterns) ==
    RatRound(RatMax(RatZero, Rat(50000 - patterns.essential_spending_ratio * 50, 1000)), 10)

\* round(high_risk_spending_ratio * 100, 1), in tenths
HighRiskSpending(patterns) ==
    RatRound(Rat(patterns.high_risk_spending_ratio * 100, 1000), 10)

WeekendSpendingUncapped(patterns) ==
    RatRound(Rat(patterns.weekend_spending_ratio * 100, 1000), 10)

\* round(min(weekend_spending_ratio * 100, 50), 1), in tenths
WeekendSpending(patterns) ==
    RatRound(RatMin(Rat(patterns.weekend_spending_ratio * 100, 1000), <<50, 1>>), 10)

IfThen(cond, s) == IF cond THEN <<s>> ELSE <<>>

\* the factors without the fallback entry of an empty list
EligibilityFactorsNoFallback(behavioral_analysis) ==
    LET patterns == behavioral_analysis.behavioral_patterns
        analysis == behavioral_analysis.income_and_spending_analysis
        monthly_incomes == [m \in DOMAIN analysis |-> analysis[m].income]
    IN  IfThen(patterns.essential_spending_ratio > 500, "High essential spending ratio")
        \o IfThen(patterns.high_risk_spending_ratio < 150, "Low discretionary spending")
        \o IfThen(behavioral_analysis.spending_stability \in {"High", "Medium"},
                  "Stable spending pattern")
        \o IfThen(/\ Cardinality(DOMAIN analysis) > 1
                  /\ 10 * Volatility(monthly_incomes) < 3 * FxOne,
                  "Stable income")

EligibilityFactors(behavioral_analysis) ==
    LET patterns == behavioral_analysis.behavioral_patterns
        analysis == behavioral_analysis.income_and_spending_analysis
        monthly_incomes == [m \in DOMAIN analysis |-> analysis[m].income]
        factors ==
            IfThen(patterns.essential_spending_ratio > 500, "High essential spending ratio")
            \o IfThen(patterns.high_risk_spending_ratio < 150, "Low discretionary spending")
            \o IfThen(behavioral_analysis.spending_stability \in {"High", "Medium"},
                      "Stable spending pattern")
            \o IfThen(/\ Cardinality(DOMAIN analysis) > 1
                      /\ 10 * Volatility(monthly_incomes) < 3 * FxOne,
                      "Stable income")
    IN  IF factors = <<>> THEN <<"Standard risk profile">> ELSE factors

CalculateRiskAssessment(behavioral_analysis) ==
    LET patterns == behavioral_analysis.behavioral_patterns
    IN  [risk_essential_spending  |-> RiskEssentialSpending(patterns),
         high_risk_spending       |-> HighRiskSpending(patterns),
         weekend_spending         |-> WeekendSpending(patterns),
         loan_eligibility_factors |-> EligibilityFactors(behavioral_analysis)]

-----------------------------------------------------------------------------
(* Stage 5: score, category, eligibility                                   *)

\* np.mean of the per-month savings_rate values
AvgSavingsRate(behavioral_analysis) ==
    LET analysis == behavioral_analysis.income_and_spending_analysis
        months   == DOMAIN analysis
    IN  RatScale(RatSumSet([m \in months |-> analysis[m].savings_rate], months),
                 1, Cardinality(months))

VolatilityScore(financial_summary) ==
    Rat((financial_summary.income_volatility + financial_summary.spending_volatility) * 50,
        1000)

ConsistencyBonus(financial_summary) ==
    Rat((1000 - financial_summary.consistency_score) * 20, 1000)

BehavioralRisk(patterns) ==
    Rat(patterns.high_risk_spending_ratio * 30
          + Max(0, patterns.weekend_spending_ratio - 200) * 20, 1000)

EssentialBonus(patterns) ==
    Rat(Max(0, (600 - patterns.essential_spending_ratio) * 15), 1000)

\* max(0, (0.1 - avg_savings_rate) * 25)
SavingsRisk(avg_savings_rate) ==
    IF RatLess(avg_savings_rate, <<1, 10>>)
    THEN RatScale(RatSub(<<1, 10>>, avg_savings_rate), 25, 1)
    ELSE RatZero

\* the upper threshold taken inclusively
FreqRiskInclusive(transaction_frequency) ==
    IF transaction_frequency < 20 THEN 10
    ELSE IF transaction_frequency >= 300 THEN 5
    ELSE 0

\* freq_risk: 10 below 20 transactions, 5 above 300, else 0
FreqRisk(transaction_frequency) ==
    IF transaction_frequency < 20 THEN 10
    ELSE IF transaction_frequency > 300 THEN 5
    ELSE 0

\* total_risk: the sum of the six components, before the clamp
TotalRisk(financial_summary, behavioral_analysis) ==
    LET patterns == behavioral_analysis.behavioral_patterns
    IN  RatAdd(VolatilityScore(financial_summary),
        RatAdd(ConsistencyBonus(financial_summary),
        RatAdd(BehavioralRisk(patterns),
        RatAdd(EssentialBonus(patterns),
        RatAdd(SavingsRisk(AvgSavingsRate(behavioral_analysis)),
               <<FreqRisk(financial_summary.transaction_frequency), 1>>)))))

ClampScoreUncapped(total_risk) == RatMax(RatZero, total_risk)

\* min(100, max(0, total_risk))
ClampScore(total_risk) == RatMin(<<100, 1>>, RatMax(RatZero, total_risk))

\* _calculate_overall_risk_score: the unrounded score, a rational
\* (the sum is not formed when the savings component alone reaches the cap:
\* no component is negative, so the sum is clamped as that component is)
CalculateOverallRiskScore(financial_summary, behavioral_analysis) ==
    LET savings_risk == SavingsRisk(AvgSavingsRate(behavioral_analysis))
    IN  IF RatLess(savings_risk, <<100, 1>>)
        THEN ClampScore(TotalRisk(financial_summary, behavioral_analysis))
        ELSE ClampScore(savings_risk)

\* the categories with the high band starting at 60
DetermineRiskCategoryHighFrom60(risk_score) ==
    IF RatLess(risk_score, <<40, 1>>) THEN "low"
    ELSE IF RatLess(risk_score, <<60, 1>>) THEN "medium"
    ELSE "high"

\* _determine_risk_category
DetermineRiskCategory(risk_score) ==
    IF RatLess(risk_score, <<40, 1>>) THEN "low"
    ELSE IF RatLess(risk_score, <<70, 1>>) THEN "medium"
    ELSE "high"

Rule1Reason == "High risk profile with significant financial volatility"

Rule2Reason == "Insufficient essential spending pattern indicating unstable lifestyle"

Rule3Reason == "Excessive high-risk spending indicating poor financial discipline"

Rule4Reason == "Negative savings rate indicating financial stress"

Rule5Reason == "Highly inconsistent financial behavior"

RECURSIVE Join(_, _)
\* sep.join(parts)
Join(parts, sep) ==
    IF parts = <<>> THEN ""
    ELSE IF Len(parts) = 1 THEN parts[1]
    ELSE parts[1] \o sep \o Join(Tail(parts), sep)

\* the strengths without the fallback phrase of an empty list
EligibilityStrengthsNoFallback(financial_summary, patterns, avg_savings_rate) ==
    IfThen(patterns.essential_spending_ratio > 500, "stable essential spending")
    \o IfThen(patterns.high_risk_spending_ratio < 150,
              "controlled discretionary spending")
    \o IfThen(financial_summary.consistency_score > 700,
              "consistent financial behavior")
    \o IfThen(RatLess(<<1, 20>>, avg_savings_rate), "positive savings rate")

\* the strengths named in the reason of an eligible verdict
EligibilityStrengths(financial_summary, patterns, avg_savings_rate) ==
    LET reasons ==
            IfThen(patterns.essential_spending_ratio > 500, "stable essential spending")
            \o IfThen(patterns.high_risk_spending_ratio < 150,
                      "controlled discretionary spending")
            \o IfThen(financial_summary.consistency_score > 700,
                      "consistent financial behavior")
            \o IfThen(RatLess(<<1, 20>>, avg_savings_rate), "positive savings rate")
    IN  IF reasons = <<>> THEN <<"acceptable risk profile">> ELSE reasons

\* the cascade with the essential-spending rule tested before the score rule
DetermineLoanEligibilityRule2First(risk_score, financial_summary, behavioral_analysis) ==
    LET patterns == behavioral_analysis.behavioral_patterns
        avg_savings_rate == AvgSavingsRate(behavioral_analysis)
    IN  IF patterns.essential_spending_ratio < 300 THEN <<FALSE, Rule2Reason>>
        ELSE IF RatLess(<<75, 1>>, risk_score) THEN <<FALSE, Rule1Reason>>
        ELSE IF patterns.high_risk_spending_ratio > 250 THEN <<FALSE, Rule3Reason>>
        ELSE IF RatLess(avg_savings_rate, <<-1, 10>>) THEN <<FALSE, Rule4Reason>>
        ELSE IF financial_summary.consistency_score < 300 THEN <<FALSE, Rule5Reason>>
        ELSE <<TRUE,
               "Eligible based on "
                 \o Join(EligibilityStrengths(financial_summary, patterns,
                                              avg_savings_rate), ", ")>>

\* the cascade without the essential-spending rule
DetermineLoanEligibilityNoRule2(risk_score, financial_summary, behavioral_analysis) ==
    LET patterns == behavioral_analysis.behavioral_patterns
        avg_savings_rate == AvgSavingsRate(behavioral_analysis)
    IN  IF RatLess(<<75, 1>>, risk_score) THEN <<FALSE, Rule1Reason>>
        ELSE IF patterns.high_risk_spending_ratio > 250 THEN <<FALSE, Rule3Reason>>
        ELSE IF RatLess(avg_savings_rate, <<-1, 10>>) THEN <<FALSE, Rule4Reason>>
        ELSE IF financial_summary.consistency_score < 300 THEN <<FALSE, Rule5Reason>>
        ELSE <<TRUE,
               "Eligible based on "
                 \o Join(EligibilityStrengths(financial_summary, patterns,
                                              avg_savings_rate), ", ")>>

\* _determine_loan_eligibility: <<eligible, reason>>
DetermineLoanEligibility(risk_score, financial_summary, behavioral_analysis) ==
    LET patterns == behavioral_analysis.behavioral_patterns
        avg_savings_rate == AvgSavingsRate(behavioral_analysis)
    IN  IF RatLess(<<75, 1>>, risk_score) THEN <<FALSE, Rule1Reason>>
        ELSE IF patterns.essential_spending_ratio < 300 THEN <<FALSE, Rule2Reason>>
        ELSE IF patterns.high_risk_spending_ratio > 250 THEN <<FALSE, Rule3Reason>>
        ELSE IF RatLess(avg_savings_rate, <<-1, 10>>) THEN <<FALSE, Rule4Reason>>
        ELSE IF financial_summary.consistency_score < 300 THEN <<FALSE, Rule5Reason>>
        ELSE <<TRUE,
               "Eligible based on "
                 \o Join(EligibilityStrengths(financial_summary, patterns,
                                              avg_savings_rate), ", ")>>

\* the sentinel with an empty list of factors and a zero essential sub-score
GenerateEmptyResultBare(now) ==
    [raised             |-> FALSE,
     overall_risk_score |-> 500,
     risk_category      |-> "medium",
     loan_eligibility   |-> FALSE,
     eligibility_reason |-> "Insufficient transaction history for assessment",
     financial_summary  |->
        [monthly_spendings     |-> <<>>,
         monthly_savings       |-> <<>>,
         total_savings         |-> 0,
         income_volatility     |-> 0,
         spending_volatility   |-> 0,
         consistency_score     |-> 0,
         transaction_frequency |-> 0],
     behavioral_analysis |->
        [spending_pattern_distribution |-> <<>>,
         income_and_spending_analysis  |-> <<>>,
         spending_stability            |-> "Medium",
         behavioral_patterns           |->
            [essential_spending_ratio |-> 0,
             high_risk_spending_ratio |-> 0,
             weekend_spending_ratio   |-> 0]],
     risk_assessment_details |->
        [risk_essential_spending  |-> 0,
         high_risk_spending       |-> 0,
         weekend_spending         |-> 0,
         loan_eligibility_factors |-> <<>>],
     created_at |-> now]

\* _generate_empty_result
GenerateEmptyResult(now) ==
    [raised             |-> FALSE,
     overall_risk_score |-> 500,
     risk_category      |-> "medium",
     loan_eligibility   |-> FALSE,
     eligibility_reason |-> "Insufficient transaction history for assessment",
     financial_summary  |->
        [monthly_spendings     |-> <<>>,
         monthly_savings       |-> <<>>,
         total_savings         |-> 0,
         income_volatility     |-> 0,
         spending_volatility   |-> 0,
         consistency_score     |-> 0,
         transaction_frequency |-> 0],
     behavioral_analysis |->
        [spending_pattern_distribution |-> <<>>,
         income_and_spending_analysis  |-> <<>>,
         spending_stability            |-> "Medium",
         behavioral_patterns           |->
            [essential_spending_ratio |-> 0,
             high_risk_spending_ratio |-> 0,
             weekend_spending_ratio   |-> 0]],
     risk_assessment_details |->
        [risk_essential_spending  |-> 500,
         high_risk_spending       |-> 0,
         weekend_spending         |-> 0,
         loan_eligibility_factors |-> <<"Insufficient data">>],
     created_at |-> now]

\* the exception a call ends with instead of a result
Raised(error) == [raised |-> TRUE, error |-> error]

\* round(overall_risk_score, 1), in tenths
ReportedScore(overall_risk_score) == RatRound(overall_risk_score, 10)

\* analyze_transactions with a count of the calls made so far in the result
AnalyzeTransactionsCounting(self, txs, now) ==
    IF txs = <<>> THEN GenerateEmptyResult(now)
    ELSE LET df == TransactionsToDataframe(self, txs)
         IN  IF FinancialSummaryRaises(df) \/ BehavioralAnalysisRaises(df)
             THEN Raised("KeyError")
             ELSE
             LET financial_summary   == CalculateFinancialSummary(df)
                 behavioral_analysis == CalculateBehavioralAnalysis(self, df)
                 risk_assessment     == CalculateRiskAssessment(behavioral_analysis)
                 overall_risk_score  ==
                     CalculateOverallRiskScore(financial_summary, behavioral_analysis)
                 eligibility ==
                     DetermineLoanEligibility(overall_risk_score, financial_summary,
                                              behavioral_analysis)
             IN  [raised                  |-> FALSE,
                  overall_risk_score      |-> ReportedScore(overall_risk_score),
                  risk_category           |-> DetermineRiskCategory(overall_risk_score),
                  loan_eligibility        |-> eligibility[1],
                  eligibility_reason      |-> eligibility[2],
                  financial_summary       |->
                      [financial_summary EXCEPT !.transaction_frequency = @ + now],
                  behavioral_analysis     |-> behavioral_analysis,
                  risk_assessment_details |-> risk_assessment,
                  created_at              |-> now]

\* analyze_transactions
AnalyzeTransactions(self, txs, now) ==
    IF txs = <<>> THEN GenerateEmptyResult(now)
    ELSE LET df == TransactionsToDataframe(self, txs)
         IN  IF FinancialSummaryRaises(df) \/ BehavioralAnalysisRaises(df)
             THEN Raised("KeyError")
             ELSE
             LET financial_summary   == CalculateFinancialSummary(df)
                 behavioral_analysis == CalculateBehavioralAnalysis(self, df)
                 risk_assessment     == CalculateRiskAssessment(behavioral_analysis)
                 overall_risk_score  ==
                     CalculateOverallRiskScore(financial_summary, behavioral_analysis)
                 eligibility ==
                     DetermineLoanEligibility(overall_risk_score, financial_summary,
                                              behavioral_analysis)
             IN  [raised                  |-> FALSE,
                  overall_risk_score      |-> ReportedScore(overall_risk_score),
                  risk_category           |-> DetermineRiskCategory(overall_risk_score),
                  loan_eligibility        |-> eligibility[1],
                  eligibility_reason      |-> eligibility[2],
                  financial_summary       |-> financial_summary,
                  behavioral_analysis     |-> behavioral_analysis,
                  risk_assessment_details |-> risk_assessment,
                  created_at              |-> now]

-----------------------------------------------------------------------------
(* The state machine: one TransactionRiskModel, one caller-held list,      *)
(* analyze_transactions called on it up to MaxCalls times.                 *)

MaxTx == 5

MaxCalls == 2

\* TransactionRiskModel.__init__
\* no call of send_webhook, no request, in the specifications without them
NoDelivery == [pc |-> "none"]

NoRequest == [pc |-> "none"]

NewModel ==
    [high_risk_categories |->
        {"gambling", "casino", "betting", "alcohol", "tobacco", "luxury",
         "entertainment", "gaming", "nightlife", "party"},
     essential_categories |->
        {"groceries", "utilities", "rent", "mortgage", "insurance", "healthcare",
         "medicine", "fuel", "transport", "education", "bills"},
     weekend_days |-> {5, 6}]

\* A Transaction: the fields the analysis reads (id, user_id, description and
\* upi_app are carried into the frame and never read).
Tx(date, type, category, amount) ==
    [date |-> date, type |-> type, category |-> category, amount |-> amount]

\* The transactions an input list is made of, in the order they take in it
\* (not the order of their dates).  Day 3 is Wednesday 2024-01-03, day 6
\* Saturday 2024-01-06, day 7 Sunday 2024-01-07, day 38 Wednesday 2024-02-07
\* and day 41 Saturday 2024-02-10.
TxPool ==
    <<Tx(38, "credit", "salary", 2),
      Tx(3,  "debit",  "Groceries", 2),
      Tx(41, "debit",  "shopping", 1),
      Tx(6,  "debit",  "GAMBLING", 2),
      Tx(6,  "credit", "salary", 1),
      Tx(38, "debit",  "Groceries", 1),
      Tx(7,  "debit",  "shopping", 1),
      Tx(38, "credit", "salary", 3),
      Tx(3,  "debit",  "gambling", 1),
      Tx(3,  "credit", "salary", 2),
      Tx(3,  "debit",  "shopping", 0)>>

RECURSIVE Picks(_, _)
\* the non-decreasing sequences of at most n indices of TxPool, none below lo
Picks(n, lo) ==
    IF n = 0 THEN {<<>>}
    ELSE {<<>>} \cup UNION {{<<i>> \o s : s \in Picks(n - 1, i)} : i \in lo..Len(TxPool)}

\* The input lists: every multiset of at most MaxTx pool transactions, once.
Inputs == {[k \in 1..Len(s) |-> TxPool[s[k]]] : s \in Picks(MaxTx, 1)}

Init ==
    /\ model = NewModel
    /\ transactions \in Inputs
    /\ results = <<>>
    /\ clock = 0
    /\ delivery = NoDelivery
    /\ store = <<>>
    /\ request = NoRequest
    /\ calls = <<>>

\* result = ml_model.analyze_transactions(transactions)
Analyze ==
    /\ Len(results) < MaxCalls
    /\ results' = Append(results, AnalyzeTransactions(model, transactions, clock))
    /\ clock' = clock + 1
    /\ UNCHANGED <<model, transactions, delivery, store, request, calls>>

Next == Analyze

Spec == Init /\ [][Next]_vars

\* The single-month scenario: one debit of 1000.0 tagged "groceries" and one
\* credit of 2000.0 (amounts in units of 1e-6), on any two days of January
\* 2024 and in either order.
ScenarioDebit == 1000 * FxOne

ScenarioCredit == 2000 * FxOne

January == 1..31

ScenarioInputs ==
    UNION {{<<Tx(d1, "debit", "groceries", ScenarioDebit),
              Tx(d2, "credit", "salary", ScenarioCredit)>>,
            <<Tx(d2, "credit", "salary", ScenarioCredit),
              Tx(d1, "debit", "groceries", ScenarioDebit)>>} :
           d1 \in January, d2 \in January}

InitScenario ==
    /\ model = NewModel
    /\ transactions \in ScenarioInputs
    /\ results = <<>>
    /\ clock = 0
    /\ delivery = NoDelivery
    /\ store = <<>>
    /\ request = NoRequest
    /\ calls = <<>>

SpecScenario == InitScenario /\ [][Next]_vars

-----------------------------------------------------------------------------
(* WebhookService.send_webhook: one delivery, attempt by attempt           *)

\* WebhookService.__init__ (the times in seconds)
NewWebhookService == [timeout |-> 30, max_retries |-> 3, retry_delay |-> 1]

\* The ways client.post ends: a response with a status code, or one of the
\* exceptions the handlers tell apart (a timeout, another request error,
\* anything else, such as a payload that cannot be encoded).
Statuses == {200, 201, 302, 400, 404, 499, 500, 503}

PostOutcomes ==
    [kind : {"response"}, status : Statuses]
        \cup [kind : {"TimeoutException", "RequestError", "Exception"}, status : {0}]

\* response.raise_for_status() raises HTTPStatusError: for every 4xx and
\* 5xx; for a redirect the httpx version decides (redirect_raises).
RaiseForStatus(status, redirect_raises) ==
    \/ status >= 400
    \/ (status >= 300 /\ redirect_raises)

\* no status counted as a client error
ClientErrorNever(status) == FALSE

\* if 400 <= e.response.status_code < 500: return False
ClientError(status) == 400 <= status /\ status < 500

RECURSIVE Pow2(_)
\* 2 ** n
Pow2(n) == IF n = 0 THEN 1 ELSE 2 * Pow2(n - 1)

\* the same delay before every retry
DelayConstant(self, attempt) == self.retry_delay

\* delay = self.retry_delay * (2 ** attempt)
Delay(self, attempt) == self.retry_delay * Pow2(attempt)

\* if attempt < self.max_retries - 1: the wait before the next attempt
WaitsBeforeRetry(self, attempt) == attempt < self.max_retries - 1

\* a loop that runs once more than max_retries
HasNextAttemptInclusive(self, attempt) == attempt + 1 <= self.max_retries

\* for attempt in range(self.max_retries): another attempt follows
HasNextAttempt(self, attempt) == attempt + 1 < self.max_retries

\* the call is made: payload and headers are prepared, the loop is entered
SendWebhook ==
    /\ delivery.pc = "called"
    /\ delivery' = [delivery EXCEPT !.pc = "post", !.attempt = 0]
    /\ UNCHANGED <<model, transactions, results, clock, store, request, calls>>

\* one client.post with raise_for_status and the except clauses, on the
\* locals d of a call of send_webhook
PostResult(d, outcome, redirect_raises) ==
    LET ok == /\ outcome.kind = "response"
              /\ ~RaiseForStatus(outcome.status, redirect_raises)
        \* the log of the attempts: how each post ended
        posted == [d EXCEPT !.posts =
                      Append(@, [kind   |-> outcome.kind,
                                 status |-> outcome.status,
                                 ok     |-> ok])]
    IN  IF ok
        THEN [posted EXCEPT !.pc = "done", !.returned = <<TRUE>>]
        ELSE IF outcome.kind = "response" /\ ClientError(outcome.status)
        THEN [posted EXCEPT !.pc = "done", !.returned = <<FALSE>>]
        ELSE [posted EXCEPT !.pc = "failed"]

Post ==
    /\ delivery.pc = "post"
    /\ \E outcome \in PostOutcomes, redirect_raises \in BOOLEAN :
           delivery' = PostResult(delivery, outcome, redirect_raises)
    /\ UNCHANGED <<model, transactions, results, clock, store, request, calls>>

\* after a failed attempt: the backoff sleep and the next turn of the loop,
\* or the end of the loop and return False
BackoffResult(d) ==
    LET self    == d.self
        attempt == d.attempt
        slept   ==
            IF WaitsBeforeRetry(self, attempt)
            THEN [d EXCEPT !.sleeps = Append(@, Delay(self, attempt))]
            ELSE d
    IN  IF HasNextAttempt(self, attempt)
        THEN [slept EXCEPT !.pc = "post", !.attempt = attempt + 1]
        ELSE [slept EXCEPT !.pc = "done", !.returned = <<FALSE>>]

Backoff ==
    /\ delivery.pc = "failed"
    /\ delivery' = BackoffResult(delivery)
    /\ UNCHANGED <<model, transactions, results, clock, store, request, calls>>

InitWebhook ==
    /\ model = NewModel
    /\ transactions = <<>>
    /\ results = <<>>
    /\ clock = 0
    /\ delivery = [pc |-> "called", self |-> NewWebhookService, attempt |-> 0,
                   posts |-> <<>>, sleeps |-> <<>>, returned |-> <<>>]
    /\ store = <<>>
    /\ request = NoRequest
    /\ calls = <<>>

NextWebhook == SendWebhook \/ Post \/ Backoff

SpecWebhook == InitWebhook /\ [][NextWebhook]_vars

-----------------------------------------------------------------------------
(* routes/api.py: one request to /api/analyze or to /api/webhook           *)

\* APIResponse(success=True, ...) of /api/analyze
AnalyzeResponse(analysis_result) ==
    [status |-> 200, success |-> TRUE, data |-> analysis_result]

\* raise HTTPException(status_code, detail)
HttpError(status, detail) == [status |-> status, success |-> FALSE, data |-> detail]

\* the row save_ml_result inserts into ml_results
MlResultRow(user_id, analysis_result, now) ==
    [user_id            |-> user_id,
     risk_score         |-> analysis_result.overall_risk_score,
     risk_category      |-> analysis_result.risk_category,
     eligible           |-> analysis_result.loan_eligibility,
     eligibility_reason |-> analysis_result.eligibility_reason,
     metrics            |-> analysis_result,
     created_at         |-> now]

\* get_latest_ml_result: the rows of the user, the newest first, limit 1
LatestMlResult(rows, user_id) ==
    LET mine == {k \in 1..Len(rows) : rows[k].user_id = user_id}
    IN  IF mine = {} THEN <<>>
        ELSE <<rows[CHOOSE k \in mine :
                       \A j \in mine : rows[j].created_at <= rows[k].created_at]>>

\* the module-level send_webhook of routes/api.py: one client.post and
\* raise_for_status, no loop; TRUE when neither raises
ApiSendWebhook(outcome, redirect_raises) ==
    /\ outcome.kind = "response"
    /\ ~RaiseForStatus(outcome.status, redirect_raises)

\* an exception of send_webhook leaving /api/analyze as a 500 response
AnalyzeAfterWebhookPropagating(req, sent) ==
    IF sent THEN AnalyzeResponse(req.analysis_result)
    ELSE HttpError(500, "Internal server error during analysis")

\* /api/analyze after send_webhook: its exception is caught and printed,
\* the success response is returned with or without it
AnalyzeAfterWebhook(req, sent) == AnalyzeResponse(req.analysis_result)

\* user = await supabase.get_user_by_account(account_no, ifsc)
GetUser ==
    /\ request.endpoint = "analyze"
    /\ request.pc = "user"
    /\ \E found \in BOOLEAN :
           request' =
               IF found THEN [request EXCEPT !.pc = "transactions",
                                             !.user = <<request.user_id>>]
               ELSE [request EXCEPT !.pc = "done",
                                    !.response = <<HttpError(404, "User not found")>>]
    /\ UNCHANGED <<model, transactions, results, clock, delivery, store, calls>>

\* transactions = await supabase.get_user_transactions(user.id, days=180),
\* then the analysis, which runs without a suspension
GetTransactionsAndAnalyze ==
    /\ request.endpoint = "analyze"
    /\ request.pc = "transactions"
    /\ \E fetched \in BOOLEAN :
           LET txs == IF fetched THEN transactions ELSE <<>>
               analysis_result == AnalyzeTransactions(model, txs, clock)
           IN  IF txs = <<>>
               THEN /\ request' = [request EXCEPT !.pc = "done",
                                       !.response = <<HttpError(404, "No transactions found")>>]
                    /\ UNCHANGED clock
               ELSE IF analysis_result.raised
               THEN /\ request' = [request EXCEPT !.pc = "done", !.fetched = txs,
                                       !.response = <<HttpError(500,
                                           "Internal server error during analysis")>>]
                    /\ UNCHANGED clock
               ELSE /\ request' = [request EXCEPT !.pc = "save", !.fetched = txs,
                                       !.analysis_result = analysis_result]
                    /\ clock' = clock + 1
    /\ UNCHANGED <<model, transactions, results, delivery, store, calls>>

\* the steps after save_ml_result with its result never tested
AfterSaveUnchecked(req, returned) ==
    IF req.webhook_url # ""
    THEN [req EXCEPT !.pc = "webhook", !.saved = returned]
    ELSE [req EXCEPT !.pc = "done", !.saved = returned,
                     !.response = <<AnalyzeResponse(req.analysis_result)>>]

\* if not ml_result: raise HTTPException(500); webhook_url =
\* os.getenv("WEBHOOK_URL"); without it the response
AfterSave(req, returned) ==
    IF ~returned
    THEN [req EXCEPT !.pc = "done",
                     !.response = <<HttpError(500,
                         "Failed to save analysis results to database")>>]
    ELSE IF req.webhook_url # ""
    THEN [req EXCEPT !.pc = "webhook", !.saved = TRUE]
    ELSE [req EXCEPT !.pc = "done", !.saved = TRUE,
                     !.response = <<AnalyzeResponse(req.analysis_result)>>]

\* The ways save_ml_result ends: the row is inserted and returned as an
\* MLResult; the row is inserted and None is returned (an empty
\* response.data, or an exception while the MLResult is built); nothing is
\* inserted and None is returned (no client, or an exception of the insert).
SaveOutcomes == {"returned", "unreturned", "failed"}

\* ml_result = await supabase.save_ml_result(user.id, analysis_result), and
\* the statements up to the next await
SaveMlResult ==
    /\ request.endpoint = "analyze"
    /\ request.pc = "save"
    /\ \E outcome \in SaveOutcomes :
           /\ store' = IF outcome = "failed" THEN store
                       ELSE Append(store, MlResultRow(request.user_id,
                                                      request.analysis_result, clock))
           /\ request' = AfterSave(request, outcome = "returned")
    /\ clock' = clock + 1
    /\ UNCHANGED <<model, transactions, results, delivery, calls>>

\* await send_webhook(user.id, analysis_result, webhook_url) inside
\* try/except, and the response
AnalyzeSendWebhook ==
    /\ request.endpoint = "analyze"
    /\ request.pc = "webhook"
    /\ \E outcome \in PostOutcomes, redirect_raises \in BOOLEAN :
           LET sent == ApiSendWebhook(outcome, redirect_raises)
           IN  request' = [request EXCEPT
                   !.pc = "done",
                   !.posts = Append(@, [kind   |-> outcome.kind,
                                        status |-> outcome.status,
                                        ok     |-> sent]),
                   !.response = <<AnalyzeAfterWebhook(request, sent)>>]
    /\ UNCHANGED <<model, transactions, results, clock, delivery, store, calls>>

\* /api/webhook: ml_result = await supabase.get_latest_ml_result(user_id)
TriggerGetLatest ==
    /\ request.endpoint = "webhook"
    /\ request.pc = "latest"
    /\ \E fetched \in BOOLEAN :
           LET ml_result == IF fetched THEN LatestMlResult(store, request.user_id)
                            ELSE <<>>
           IN  request' =
                   IF ml_result = <<>>
                   THEN [request EXCEPT !.pc = "done",
                             !.response = <<HttpError(404, "No analysis results found")>>]
                   ELSE [request EXCEPT !.pc = "webhook",
                             !.analysis_result = ml_result[1].metrics]
    /\ UNCHANGED <<model, transactions, results, clock, delivery, store, calls>>

\* /api/webhook: await send_webhook(user_id, analysis_result, webhook_url);
\* its exception becomes a 500 response
TriggerSendWebhook ==
    /\ request.endpoint = "webhook"
    /\ request.pc = "webhook"
    /\ \E outcome \in PostOutcomes, redirect_raises \in BOOLEAN :
           LET sent == ApiSendWebhook(outcome, redirect_raises)
           IN  request' = [request EXCEPT
                   !.pc = "done",
                   !.posts = Append(@, [kind   |-> outcome.kind,
                                        status |-> outcome.status,
                                        ok     |-> sent]),
                   !.response =
                       IF sent
                       THEN <<[status |-> 200, success |-> TRUE,
                               data |-> request.webhook_url]>>
                       ELSE <<HttpError(500, "Failed to send webhook")>>]
    /\ UNCHANGED <<model, transactions, results, clock, delivery, store, calls>>

\* the transaction lists of the user in the table: none, or one of two lists
ApiInputs ==
    {<<>>,
     <<TxPool[2], TxPool[1]>>,
     <<TxPool[1], TxPool[2], TxPool[4], TxPool[10]>>}

\* a row stored by an earlier request
EarlierRow ==
    MlResultRow("user-1", AnalyzeTransactions(NewModel, <<TxPool[2], TxPool[8]>>, 0), 0)

InitApi ==
    /\ model = NewModel
    /\ transactions \in ApiInputs
    /\ results = <<>>
    /\ clock = 1
    /\ delivery = NoDelivery
    /\ store \in {<<>>, <<EarlierRow>>}
    /\ \E endpoint \in {"analyze", "webhook"}, webhook_url \in {"", "https://hook"} :
           request = [endpoint        |-> endpoint,
                      pc              |-> IF endpoint = "analyze" THEN "user" ELSE "latest",
                      user_id         |-> "user-1",
                      user            |-> <<>>,
                      fetched         |-> <<>>,
                      webhook_url     |-> webhook_url,
                      analysis_result |-> <<>>,
                      saved           |-> FALSE,
                      posts           |-> <<>>,
                      response        |-> <<>>]
    /\ calls = <<>>

NextApi ==
    \/ GetUser
    \/ GetTransactionsAndAnalyze
    \/ SaveMlResult
    \/ AnalyzeSendWebhook
    \/ TriggerGetLatest
    \/ TriggerSendWebhook

SpecApi == InitApi /\ [][NextApi]_vars

-----------------------------------------------------------------------------
(* Two calls of analyze_transactions running at once on one model, each    *)
(* with its own list and its own local variables, interleaved between the  *)
(* statements of lines 29-62                                               *)

Callers == 1..2

\* the frame a call passes to the stages, taken from another call's locals
\* when that call has built one
FrameOfFirstCall(cs, c) == IF cs[1].df # <<>> THEN cs[1].df ELSE cs[c].df

\* df: the local variable of the call, passed to the stages as an argument
OwnFrame(cs, c) == cs[c].df

\* if not transactions: return self._generate_empty_result();
\* df = self._transactions_to_dataframe(transactions)
StepDataframe(c) ==
    /\ calls[c].pc = "called"
    /\ calls' = [calls EXCEPT ![c] =
           LET call == calls[c]
           IN  IF call.transactions = <<>>
               THEN [call EXCEPT !.pc = "done", !.started = clock,
                                 !.result = <<GenerateEmptyResult(clock)>>]
               ELSE [call EXCEPT !.pc = "summary", !.started = clock,
                                 !.df = TransactionsToDataframe(model, call.transactions)]]
    /\ clock' = clock + 1
    /\ UNCHANGED <<model, transactions, results, delivery, store, request>>

\* financial_summary = self._calculate_financial_summary(df)
StepFinancialSummary(c) ==
    /\ calls[c].pc = "summary"
    /\ calls' = [calls EXCEPT ![c] =
           LET call == calls[c]
               df   == OwnFrame(calls, c)
           IN  IF FinancialSummaryRaises(df)
               THEN [call EXCEPT !.pc = "done", !.result = <<Raised("KeyError")>>]
               ELSE [call EXCEPT !.pc = "behavioral",
                                 !.financial_summary = CalculateFinancialSummary(df)]]
    /\ clock' = clock + 1
    /\ UNCHANGED <<model, transactions, results, delivery, store, request>>

\* behavioral_analysis = self._calculate_behavioral_analysis(df)
StepBehavioralAnalysis(c) ==
    /\ calls[c].pc = "behavioral"
    /\ calls' = [calls EXCEPT ![c] =
           LET call == calls[c]
               df   == OwnFrame(calls, c)
           IN  IF BehavioralAnalysisRaises(df)
               THEN [call EXCEPT !.pc = "done", !.result = <<Raised("KeyError")>>]
               ELSE [call EXCEPT !.pc = "risk",
                                 !.behavioral_analysis =
                                     CalculateBehavioralAnalysis(model, df)]]
    /\ clock' = clock + 1
    /\ UNCHANGED <<model, transactions, results, delivery, store, request>>

\* risk_assessment = self._calculate_risk_assessment(df, behavioral_analysis)
StepRiskAssessment(c) ==
    /\ calls[c].pc = "risk"
    /\ calls' = [calls EXCEPT ![c] =
           LET call == calls[c]
           IN  [call EXCEPT !.pc = "score",
                            !.risk_assessment =
                                CalculateRiskAssessment(call.behavioral_analysis)]]
    /\ clock' = clock + 1
    /\ UNCHANGED <<model, transactions, results, delivery, store, request>>

\* overall_risk_score = self._calculate_overall_risk_score(...)
StepOverallRiskScore(c) ==
    /\ calls[c].pc = "score"
    /\ calls' = [calls EXCEPT ![c] =
           LET call == calls[c]
           IN  [call EXCEPT !.pc = "category",
                            !.overall_risk_score =
                                CalculateOverallRiskScore(call.financial_summary,
                                                          call.behavioral_analysis)]]
    /\ clock' = clock + 1
    /\ UNCHANGED <<model, transactions, results, delivery, store, request>>

\* risk_category = self._determine_risk_category(overall_risk_score)
StepRiskCategory(c) ==
    /\ calls[c].pc = "category"
    /\ calls' = [calls EXCEPT ![c] =
           LET call == calls[c]
           IN  [call EXCEPT !.pc = "eligibility",
                            !.risk_category =
                                DetermineRiskCategory(call.overall_risk_score)]]
    /\ clock' = clock + 1
    /\ UNCHANGED <<model, transactions, results, delivery, store, request>>

\* loan_eligibility, eligibility_reason = self._determine_loan_eligibility(...)
StepLoanEligibility(c) ==
    /\ calls[c].pc = "eligibility"
    /\ calls' = [calls EXCEPT ![c] =
           LET call == calls[c]
           IN  [call EXCEPT !.pc = "return",
                            !.eligibility =
                                DetermineLoanEligibility(call.overall_risk_score,
                                                         call.financial_summary,
                                                         call.behavioral_analysis)]]
    /\ clock' = clock + 1
    /\ UNCHANGED <<model, transactions, results, delivery, store, request>>

\* return MLAnalysisResult(...)
StepReturn(c) ==
    /\ calls[c].pc = "return"
    /\ calls' = [calls EXCEPT ![c] =
           LET call == calls[c]
           IN  [call EXCEPT !.pc = "done",
                            !.result =
                                <<[raised                  |-> FALSE,
                                   overall_risk_score      |->
                                       ReportedScore(call.overall_risk_score),
                                   risk_category           |-> call.risk_category,
                                   loan_eligibility        |-> call.eligibility[1],
                                   eligibility_reason      |-> call.eligibility[2],
                                   financial_summary       |-> call.financial_summary,
                                   behavioral_analysis     |-> call.behavioral_analysis,
                                   risk_assessment_details |-> call.risk_assessment,
                                   created_at              |-> clock]>>]]
    /\ clock' = clock + 1
    /\ UNCHANGED <<model, transactions, results, delivery, store, request>>

\* the lists of the two users
ConcurrentInputs ==
    {<<>>,
     <<TxPool[2], TxPool[1]>>,
     <<TxPool[7], TxPool[4], TxPool[5]>>,
     <<TxPool[1], TxPool[2], TxPool[4], TxPool[10]>>}

\* a call that has been made and has not run yet; given is the list as the
\* caller handed it in, started the time of its first statement
NewCall(txs) ==
    [pc |-> "called", transactions |-> txs, given |-> txs, started |-> 0,
     df |-> <<>>, financial_summary |-> <<>>, behavioral_analysis |-> <<>>,
     risk_assessment |-> <<>>, overall_risk_score |-> <<>>, risk_category |-> "",
     eligibility |-> <<>>, result |-> <<>>]

InitConcurrent ==
    /\ model = NewModel
    /\ transactions = <<>>
    /\ results = <<>>
    /\ clock = 1
    /\ delivery = NoDelivery
    /\ store = <<>>
    /\ request = NoRequest
    /\ \E a \in ConcurrentInputs, b \in ConcurrentInputs :
           calls = <<NewCall(a), NewCall(b)>>

NextConcurrent ==
    \E c \in Callers :
        \/ StepDataframe(c)
        \/ StepFinancialSummary(c)
        \/ StepBehavioralAnalysis(c)
        \/ StepRiskAssessment(c)
        \/ StepOverallRiskScore(c)
        \/ StepRiskCategory(c)
        \/ StepLoanEligibility(c)
        \/ StepReturn(c)

SpecConcurrent == InitConcurrent /\ [][NextConcurrent]_vars

-----------------------------------------------------------------------------
(* _calculate_overall_risk_score and the statements after it, on summaries *)
(* of short and of long lists                                              *)

MaxScored == 2

\* the lists whose summary and behavioural analysis the scorer is given
ScoredInputs == {[k \in 1..Len(s) |-> TxPool[s[k]]] : s \in Picks(MaxScored, 1)} \ {<<>>}

\* len(df): the length of the list itself, and the lengths around the two
\* thresholds of the frequency factor
Frequencies(txs) == {Len(txs), 19, 20, 21, 300, 301}

\* The call of analyze_transactions that has computed its three metrics for
\* the list txs padded to n transactions with zero-amount transactions of a
\* month, type and category of txs: the padding leaves every sum of the
\* frame as it is, so that only transaction_frequency differs from the
\* metrics of txs.
ScoringCall(txs, n) ==
    LET df == TransactionsToDataframe(NewModel, txs)
        behavioral_analysis == CalculateBehavioralAnalysis(NewModel, df)
    IN  [NewCall(txs) EXCEPT
            !.pc = "score",
            !.df = df,
            !.financial_summary =
                [CalculateFinancialSummary(df) EXCEPT !.transaction_frequency = n],
            !.behavioral_analysis = behavioral_analysis,
            !.risk_assessment = CalculateRiskAssessment(behavioral_analysis)]

InitScorer ==
    /\ model = NewModel
    /\ transactions = <<>>
    /\ results = <<>>
    /\ clock = 1
    /\ delivery = NoDelivery
    /\ store = <<>>
    /\ request = NoRequest
    /\ \E txs \in ScoredInputs :
           \E n \in Frequencies(txs) : calls = <<ScoringCall(txs, n)>>

NextScorer ==
    \/ StepOverallRiskScore(1)
    \/ StepRiskCategory(1)
    \/ StepLoanEligibility(1)
    \/ StepReturn(1)

SpecScorer == InitScorer /\ [][NextScorer]_vars

-----------------------------------------------------------------------------
(* The caller reorders its list between the calls of analyze_transactions  *)

MaxPermuted == 3

\* transactions of three dates, three of them on one date
PermutedPool == <<TxPool[2], TxPool[9], TxPool[10], TxPool[1], TxPool[4], TxPool[3]>>

RECURSIVE PermutedPicksOf(_, _, _)
\* the non-decreasing sequences of at most n indices lo..hi
PermutedPicksOf(n, lo, hi) ==
    IF n = 0 THEN {<<>>}
    ELSE {<<>>} \cup UNION {{<<i>> \o s : s \in PermutedPicksOf(n - 1, i, hi)} :
                              i \in lo..hi}

\* the lists as the caller holds them at first: every multiset of at most
\* MaxPermuted transactions, in the order of PermutedPool (which is not the
\* order of the dates)
PermutedInputs ==
    {[k \in 1..Len(s) |-> PermutedPool[s[k]]] : s \in PermutedPicksOf(MaxPermuted, 1, Len(PermutedPool))}

InitPermuted ==
    /\ model = NewModel
    /\ transactions \in PermutedInputs
    /\ results = <<>>
    /\ clock = 0
    /\ delivery = NoDelivery
    /\ store = <<>>
    /\ request = NoRequest
    /\ calls = <<>>

\* after a call the caller puts the same transactions in another order:
\* two of them change places
Permute ==
    /\ results # <<>>
    /\ \E a \in 1..Len(transactions), b \in 1..Len(transactions) :
           /\ a < b
           /\ transactions[a] # transactions[b]
           /\ transactions' = [transactions EXCEPT ![a] = transactions[b],
                                                   ![b] = transactions[a]]
    /\ UNCHANGED <<model, results, clock, delivery, store, request, calls>>

NextPermuted == Permute \/ Analyze

SpecPermuted == InitPermuted /\ [][NextPermuted]_vars

-----------------------------------------------------------------------------
(* Lists with a month of spending and no income: debits of 1.0 (10^6 units *)
(* of 1e-6) beside credits of a few units                                  *)

MaxGuarded == 4

\* Day 70 is Sunday 2024-03-10.
GuardedPool ==
    <<Tx(3,  "debit",  "groceries", FxOne),
      Tx(6,  "debit",  "rent", FxOne),
      Tx(3,  "credit", "salary", 1),
      Tx(38, "credit", "salary", 2),
      Tx(38, "credit", "salary", 1),
      Tx(41, "debit",  "groceries", FxOne),
      Tx(70, "credit", "salary", 3),
      Tx(70, "debit",  "gambling", 0)>>

\* the lists of at most MaxGuarded different transactions of GuardedPool
GuardedInputs ==
    {[k \in 1..Len(s) |-> GuardedPool[s[k]]] :
        s \in {t \in PermutedPicksOf(MaxGuarded, 1, Len(GuardedPool)) :
                  \A a \in 1..Len(t) : \A b \in 1..Len(t) : a < b => t[a] < t[b]}}

InitGuarded ==
    /\ model = NewModel
    /\ transactions \in GuardedInputs
    /\ results = <<>>
    /\ clock = 0
    /\ delivery = NoDelivery
    /\ store = <<>>
    /\ request = NoRequest
    /\ calls = <<>>

SpecGuarded == InitGuarded /\ [][Next]_vars

-----------------------------------------------------------------------------
(* Lists that spend nothing: credits, and debits of amount 0               *)

MaxUnspent == 4

UnspentPool ==
    <<Tx(3,  "credit", "salary", 200),
      Tx(3,  "credit", "salary", 50),
      Tx(38, "debit",  "groceries", 0),
      Tx(41, "debit",  "gambling", 0),
      Tx(38, "credit", "salary", 50),
      Tx(70, "debit",  "shopping", 0),
      Tx(70, "credit", "salary", 50),
      Tx(6,  "debit",  "groceries", 2)>>

\* the lists of at most MaxUnspent different transactions of UnspentPool
UnspentInputs ==
    {[k \in 1..Len(s) |-> UnspentPool[s[k]]] :
        s \in {t \in PermutedPicksOf(MaxUnspent, 1, Len(UnspentPool)) :
                  \A a \in 1..Len(t) : \A b \in 1..Len(t) : a < b => t[a] < t[b]}}

InitUnspent ==
    /\ model = NewModel
    /\ transactions \in UnspentInputs
    /\ results = <<>>
    /\ clock = 0
    /\ delivery = NoDelivery
    /\ store = <<>>
    /\ request = NoRequest
    /\ calls = <<>>

SpecUnspent == InitUnspent /\ [][Next]_vars

-----------------------------------------------------------------------------
(* WebhookService.send_multiple_webhooks: one task per entry of the list,   *)
(* the tasks interleaved at their awaits, awaited in the order of the list  *)

MaxUrls == 2

Urls == {"https://a", "https://b"}

UrlLists == UNION {[1..n -> Urls] : n \in 0..MaxUrls}

\* how a post of one of the tasks ends: delivered, a client error, a
\* failure that is retried
TaskOutcomes ==
    {[kind |-> "response", status |-> 200],
     [kind |-> "response", status |-> 404],
     [kind |-> "response", status |-> 503]}

\* the locals of the call self.send_webhook(url, user_id, analysis_result)
\* that a task runs
NewTask(url) ==
    [pc |-> "called", self |-> NewWebhookService, url |-> url, attempt |-> 0,
     posts |-> <<>>, sleeps |-> <<>>, returned |-> <<>>]

\* a map that keeps the first value stored under a key
StoreFirst(map, url, success) ==
    [u \in DOMAIN map \cup {url} |-> IF u \in DOMAIN map THEN map[u] ELSE success]

\* results[url] = success
Store(map, url, success) ==
    [u \in DOMAIN map \cup {url} |-> IF u = url THEN success ELSE map[u]]

\* the loop of lines 121-125: asyncio.create_task for every url, with no
\* await in between, then results = {} and the first await; an empty list
\* returns the empty map at once
CreateTasks ==
    /\ delivery.pc = "called"
    /\ delivery' = [delivery EXCEPT
           !.pc = IF delivery.urls = <<>> THEN "returned" ELSE "await",
           !.tasks = [k \in 1..Len(delivery.urls) |-> NewTask(delivery.urls[k])],
           !.next = 1]
    /\ UNCHANGED <<model, transactions, results, clock, store, request, calls>>

\* a task runs send_webhook up to its first await: the payload is built
\* (its validation may raise) and the loop is entered
TaskStart(k) ==
    /\ delivery.tasks[k].pc = "called"
    /\ \E raises \in BOOLEAN :
           delivery' = [delivery EXCEPT
               !.tasks[k].pc = IF raises THEN "raised" ELSE "post"]
    /\ UNCHANGED <<model, transactions, results, clock, store, request, calls>>

\* a task's client.post ends
TaskPost(k) ==
    /\ delivery.tasks[k].pc = "post"
    /\ \E outcome \in TaskOutcomes, redirect_raises \in BOOLEAN :
           delivery' = [delivery EXCEPT
               !.tasks[k] = PostResult(@, outcome, redirect_raises)]
    /\ UNCHANGED <<model, transactions, results, clock, store, request, calls>>

\* a task's sleep ends, or its loop does
TaskBackoff(k) ==
    /\ delivery.tasks[k].pc = "failed"
    /\ delivery' = [delivery EXCEPT !.tasks[k] = BackoffResult(@)]
    /\ UNCHANGED <<model, transactions, results, clock, store, request, calls>>

\* success = await task; results[url] = success, or False when the task
\* raised; after the last task, return results
AwaitTask ==
    /\ delivery.pc = "await"
    /\ LET k    == delivery.next
           task == delivery.tasks[k]
       IN  /\ task.pc \in {"done", "raised"}
           /\ delivery' = [delivery EXCEPT
                  !.pc = IF k = Len(delivery.tasks) THEN "returned" ELSE "await",
                  !.next = k + 1,
                  !.results = Store(@, task.url,
                                    task.pc = "done" /\ task.returned = <<TRUE>>)]
    /\ UNCHANGED <<model, transactions, results, clock, store, request, calls>>

InitMultiple ==
    /\ model = NewModel
    /\ transactions = <<>>
    /\ results = <<>>
    /\ clock = 0
    /\ \E webhook_urls \in UrlLists :
           delivery = [pc |-> "called", urls |-> webhook_urls, tasks |-> <<>>,
                       next |-> 0, results |-> [u \in {} |-> FALSE]]
    /\ store = <<>>
    /\ request = NoRequest
    /\ calls = <<>>

NextMultiple ==
    \/ CreateTasks
    \/ \E k \in 1..Len(delivery.tasks) : TaskStart(k)
    \/ \E k \in 1..Len(delivery.tasks) : TaskPost(k)
    \/ \E k \in 1..Len(delivery.tasks) : TaskBackoff(k)
    \/ AwaitTask

SpecMultiple == InitMultiple /\ [][NextMultiple]_vars

-----------------------------------------------------------------------------
(* Properties                                                              *)

\* the calls made so far
Calls == 1..Len(results)

\* the calls that returned a result for a non-empty list
Analysed == {i \in Calls : transactions # <<>> /\ ~results[i].raised}

\* the unrounded score behind a result: the scorer applied to the summary and
\* the behavioural analysis the result publishes
UnroundedScore(r) ==
    CalculateOverallRiskScore(r.financial_summary, r.behavioral_analysis)

UnclampedScore(r) == TotalRisk(r.financial_summary, r.behavioral_analysis)

\* C1: for every non-empty transaction list (amounts are never negative),
\* the overall_risk_score of the result lies in [0, 100] (0..1000 tenths).
C1_ScoreInRange ==
    \A i \in Analysed :
        /\ results[i].overall_risk_score >= 0
        /\ results[i].overall_risk_score <= 1000

\* C1 witness: a non-empty list whose summed risk exceeds 100 was analysed
\* and reported as 100.0.
C1_Witness ==
    \E i \in Analysed :
        /\ RatLess(<<100, 1>>, UnclampedScore(results[i]))
        /\ results[i].overall_risk_score = 1000

\* C2: for every non-empty list the sub-scores stay in their bounds:
\* risk_essential_spending in [0, 50], high_risk_spending in [0, 100],
\* weekend_spending in [0, 50], and weekend_spending is 50 whenever the
\* weekend ratio is at least 0.5.
C2_SubScoresInRange ==
    \A i \in Analysed :
        LET d == results[i].risk_assessment_details
            p == results[i].behavioral_analysis.behavioral_patterns
        IN  /\ d.risk_essential_spending \in 0..500
            /\ d.high_risk_spending \in 0..1000
            /\ d.weekend_spending \in 0..500
            /\ (p.weekend_spending_ratio >= 500 => d.weekend_spending = 500)

\* C2 witness: a result whose weekend ratio is above 0.5 and whose
\* weekend_spending is the cap, with a positive high-risk sub-score.
C2_Witness ==
    \E i \in Analysed :
        LET d == results[i].risk_assessment_details
            p == results[i].behavioral_analysis.behavioral_patterns
        IN  /\ p.weekend_spending_ratio > 500
            /\ d.weekend_spending = 500
            /\ d.high_risk_spending > 0
            /\ d.risk_essential_spending > 0

\* C3: the risk_category of every result agrees with the thresholds applied
\* to the overall_risk_score the same result reports: low iff reported < 40,
\* medium iff 40 <= reported < 70, high iff reported >= 70 (tenths).
C3_CategoryOfReportedScore ==
    \A i \in Calls :
        ~results[i].raised =>
            LET s == results[i].overall_risk_score
                c == results[i].risk_category
            IN  /\ (c = "low") <=> (s < 400)
                /\ (c = "medium") <=> (s >= 400 /\ s < 700)
                /\ (c = "high") <=> (s >= 700)

\* the conditions of the five rejection rules, on the arguments the cascade
\* receives: the unrounded score and the published summary and patterns
RuleHolds(r) ==
    LET p   == r.behavioral_analysis.behavioral_patterns
        avg == AvgSavingsRate(r.behavioral_analysis)
    IN  <<RatLess(<<75, 1>>, UnroundedScore(r)),
          p.essential_spending_ratio < 300,
          p.high_risk_spending_ratio > 250,
          RatLess(avg, <<-1, 10>>),
          r.financial_summary.consistency_score < 300>>

RuleReasons == <<Rule1Reason, Rule2Reason, Rule3Reason, Rule4Reason, Rule5Reason>>

\* C4: the eligibility cascade is first-match-wins in the order (1) score
\* > 75, (2) essential_ratio < 0.3, (3) high_risk_ratio > 0.25, (4)
\* avg_savings_rate < -0.1, (5) consistency_score < 0.3, the score being the
\* one the cascade is called with: when some rule holds the verdict is a
\* rejection with the message of the lowest-numbered rule that holds, so
\* when rules 1 and 2 both hold the reason is the rule-1 message.
C4_FirstMatchWins ==
    \A i \in Analysed :
        LET r == results[i]
            h == RuleHolds(r)
        IN  /\ \A k \in 1..5 :
                   (h[k] /\ \A j \in 1..(k - 1) : ~h[j])
                       => /\ ~r.loan_eligibility
                          /\ r.eligibility_reason = RuleReasons[k]
            /\ (h[1] /\ h[2]) => r.eligibility_reason = Rule1Reason

\* C4 witness: a non-empty list for which the score is above 75 and the
\* essential ratio below 0.3 was rejected with the rule-1 message.
C4_Witness ==
    \E i \in Analysed :
        LET h == RuleHolds(results[i])
        IN  /\ h[1] /\ h[2]
            /\ ~results[i].loan_eligibility
            /\ results[i].eligibility_reason = Rule1Reason

\* C5: a non-empty analysis carries the rule-1 reason if and only if the
\* overall_risk_score reported in the same result is greater than 75.
C5_Rule1IffReportedAbove75 ==
    \A i \in Analysed :
        (results[i].eligibility_reason = Rule1Reason)
            <=> (results[i].overall_risk_score > 750)

\* C6: for a non-empty input loan_eligibility is true exactly when none of
\* the five rejection rules holds; the reason is then "Eligible based on "
\* followed by the phrases of the strengths that hold (essential_ratio >
\* 0.5, high_risk_ratio < 0.15, consistency_score > 0.7, avg_savings_rate >
\* 0.05) in that order joined by ", ", and "Eligible based on acceptable
\* risk profile" when none holds.
C6_EligibleReason ==
    \A i \in Analysed :
        LET r   == results[i]
            h   == RuleHolds(r)
            p   == r.behavioral_analysis.behavioral_patterns
            avg == AvgSavingsRate(r.behavioral_analysis)
            s   == <<p.essential_spending_ratio > 500,
                     p.high_risk_spending_ratio < 150,
                     r.financial_summary.consistency_score > 700,
                     RatLess(<<1, 20>>, avg)>>
            ph  == <<"stable essential spending",
                     "controlled discretionary spending",
                     "consistent financial behavior",
                     "positive savings rate">>
            \* the phrases k..4 that hold, each preceded by ", "
            t4  == IF s[4] THEN ", " \o ph[4] ELSE ""
            t3  == (IF s[3] THEN ", " \o ph[3] ELSE "") \o t4
            t2  == (IF s[2] THEN ", " \o ph[2] ELSE "") \o t3
            expected ==
                IF s[1] THEN ph[1] \o t2
                ELSE IF s[2] THEN ph[2] \o t3
                ELSE IF s[3] THEN ph[3] \o t4
                ELSE IF s[4] THEN ph[4]
                ELSE "acceptable risk profile"
        IN  /\ r.loan_eligibility <=> (\A k \in 1..5 : ~h[k])
            /\ r.loan_eligibility
                   => r.eligibility_reason = "Eligible based on " \o expected

\* C6 witness: an eligible verdict with no strength, whose reason is the
\* fallback phrase.
C6_Witness ==
    \E i \in Analysed :
        /\ results[i].loan_eligibility
        /\ results[i].eligibility_reason = "Eligible based on acceptable risk profile"

\* C7: analyze_transactions on an empty list returns the fixed sentinel:
\* score 50.0, category medium, not eligible, the reason "Insufficient
\* transaction history for assessment", transaction_frequency 0, empty
\* monthly, category and per-month mappings, the three ratios 0, stability
\* Medium, and the single factor "Insufficient data".
C7_EmptySentinel ==
    transactions = <<>> =>
        \A i \in Calls :
            LET r == results[i] IN
            /\ ~r.raised
            /\ r.overall_risk_score = 500
            /\ r.risk_category = "medium"
            /\ r.loan_eligibility = FALSE
            /\ r.eligibility_reason = "Insufficient transaction history for assessment"
            /\ r.financial_summary.transaction_frequency = 0
            /\ r.financial_summary.monthly_spendings = <<>>
            /\ r.financial_summary.monthly_savings = <<>>
            /\ r.financial_summary.total_savings = 0
            /\ r.behavioral_analysis.spending_pattern_distribution = <<>>
            /\ r.behavioral_analysis.income_and_spending_analysis = <<>>
            /\ r.behavioral_analysis.behavioral_patterns =
                   [essential_spending_ratio |-> 0,
                    high_risk_spending_ratio |-> 0,
                    weekend_spending_ratio   |-> 0]
            /\ r.behavioral_analysis.spending_stability = "Medium"
            /\ r.risk_assessment_details.loan_eligibility_factors = <<"Insufficient data">>

\* C7 witness: the empty list was analysed.
C7_Witness ==
    /\ transactions = <<>>
    /\ Len(results) >= 1
    /\ results[1].eligibility_reason = "Insufficient transaction history for assessment"

ResultFields ==
    {"raised", "overall_risk_score", "risk_category", "loan_eligibility",
     "eligibility_reason", "financial_summary", "behavioral_analysis",
     "risk_assessment_details", "created_at"}

\* the types of the transactions of the list
InputTypes == {transactions[k].type : k \in 1..Len(transactions)}

Timeless(r) == IF r.raised THEN r ELSE [r EXCEPT !.created_at = 0]

InputTotal(month, type) ==
    LET K == {k \in 1..Len(transactions) :
                 /\ Strftime(transactions[k].date) = month
                 /\ transactions[k].type = type}
    IN  SumSet([k \in 1..Len(transactions) |-> transactions[k].amount], K)

InputMonths == {Strftime(transactions[k].date) : k \in 1..Len(transactions)}

\* C10: for every month of the input monthly_savings[month] is
\* max(0, income - spending) and so never negative, also in a month whose
\* debits exceed its credits; total_savings is their sum and never negative.
C10_SavingsClamped ==
    \A i \in Analysed :
        LET fs == results[i].financial_summary IN
        /\ DOMAIN fs.monthly_savings = InputMonths
        /\ \A m \in InputMonths :
               /\ fs.monthly_savings[m]
                      = Max(0, InputTotal(m, "credit") - InputTotal(m, "debit"))
               /\ fs.monthly_savings[m] >= 0
        /\ fs.total_savings = SumSet(fs.monthly_savings, InputMonths)
        /\ fs.total_savings >= 0

\* C10 witness: a month whose debits exceed its credits has savings 0, while
\* another month has positive savings.
C10_Witness ==
    \E i \in Analysed :
        LET fs == results[i].financial_summary IN
        /\ \E m \in InputMonths :
               /\ InputTotal(m, "debit") > InputTotal(m, "credit")
               /\ fs.monthly_savings[m] = 0
        /\ fs.total_savings > 0

\* the positions of the debits of the list
InputDebits == {k \in 1..Len(transactions) : transactions[k].type = "debit"}

\* the total of the amounts of the transactions at the positions K
InputAmount(K) ==
    SumSet([k \in 1..Len(transactions) |-> transactions[k].amount], K)

\* C11: every ratio of a result (essential, high-risk, weekend, and each
\* fraction of the category distribution) lies in [0, 1], and the three
\* behavioural ratios are 0 when the total debit amount is 0.
C11_RatiosInUnitInterval ==
    \A i \in Calls :
        ~results[i].raised =>
            LET p == results[i].behavioral_analysis.behavioral_patterns
                d == results[i].behavioral_analysis.spending_pattern_distribution
            IN  /\ p.essential_spending_ratio \in 0..1000
                /\ p.high_risk_spending_ratio \in 0..1000
                /\ p.weekend_spending_ratio \in 0..1000
                /\ \A c \in DOMAIN d : d[c] \in 0..1000
                /\ InputAmount(InputDebits) = 0 =>
                       /\ p.essential_spending_ratio = 0
                       /\ p.high_risk_spending_ratio = 0
                       /\ p.weekend_spending_ratio = 0

\* C11 witness: an analysed list with positive total debit whose weekend
\* ratio is 1, whose high-risk ratio lies strictly between 0 and 1, and
\* whose distribution has a fraction strictly between 0 and 1.
C11_Witness ==
    \E i \in Analysed :
        LET p == results[i].behavioral_analysis.behavioral_patterns
            d == results[i].behavioral_analysis.spending_pattern_distribution
        IN  /\ InputAmount(InputDebits) > 0
            /\ p.weekend_spending_ratio = 1000
            /\ p.high_risk_spending_ratio > 0 /\ p.high_risk_spending_ratio < 1000
            /\ \E c \in DOMAIN d : d[c] > 0 /\ d[c] < 1000

\* the lower-case spelling of the category labels of the inputs
LowerCased ==
    [Groceries |-> "groceries", GAMBLING |-> "gambling", gambling |-> "gambling",
     shopping |-> "shopping", salary |-> "salary"]

\* C12: the category distribution has exactly the lower-cased categories of
\* the debits as its keys when the total debit is positive; each fraction
\* is the category's share of the total debit rounded to 3 decimals, so the
\* fractions sum to 1.0 within half a thousandth per entry; the mapping is
\* empty when the total debit is 0.
C12_DistributionCoversDebits ==
    \A i \in Analysed :
        LET d     == results[i].behavioral_analysis.spending_pattern_distribution
            total == InputAmount(InputDebits)
            share(c) ==
                InputAmount({k \in InputDebits :
                                LowerCased[transactions[k].category] = c})
        IN  IF total > 0
            THEN /\ DOMAIN d = {LowerCased[transactions[k].category] : k \in InputDebits}
                 /\ \A c \in DOMAIN d :
                        2 * Abs(1000 * share(c) - d[c] * total) <= total
                 /\ 2 * Abs(SumSet(d, DOMAIN d) - 1000) <= Cardinality(DOMAIN d)
            ELSE d = <<>>

\* C12 witness: three debit categories, two of them written with capitals
\* in the input, each a third of the total: the fractions sum to 0.999.
C12_Witness ==
    \E i \in Analysed :
        LET d == results[i].behavioral_analysis.spending_pattern_distribution
        IN  /\ DOMAIN d = {"groceries", "gambling", "shopping"}
            /\ \E k \in InputDebits : transactions[k].category = "GAMBLING"
            /\ \E k \in InputDebits : transactions[k].category = "Groceries"
            /\ SumSet(d, DOMAIN d) = 999

\* the Saturdays and Sundays of January and February 2024, as days of the year
KnownWeekendDays == {6, 7, 13, 14, 20, 21, 27, 28, 34, 35, 41, 42, 48, 49, 55, 56}

\* C13: a transaction is marked is_weekend exactly when its date is a
\* Saturday or Sunday (weekday 5 or 6, Monday = 0), and the published
\* weekend_spending_ratio is the amount of the debits dated on a Saturday
\* or Sunday divided by the total debit amount (rounded to 3 decimals):
\* midweek debits and credits add nothing to it.
C13_WeekendClassification ==
    LET df == TransactionsToDataframe(model, transactions)
    IN  /\ \A r \in Rows(df) :
               /\ df[r].is_weekend <=> (df[r].date \in KnownWeekendDays)
               /\ df[r].is_weekend <=> (df[r].weekday \in {5, 6})
        /\ \A i \in Analysed :
               LET ratio   == results[i].behavioral_analysis
                                  .behavioral_patterns.weekend_spending_ratio
                   total   == InputAmount(InputDebits)
                   weekend == InputAmount({k \in InputDebits :
                                  transactions[k].date \in KnownWeekendDays})
               IN  total > 0 => 2 * Abs(1000 * weekend - ratio * total) <= total

\* C13 witness: a list with a Sunday debit, a midweek debit and a Saturday
\* credit was analysed; the ratio is the share of the Sunday debit alone.
C13_Witness ==
    \E i \in Analysed :
        /\ \E k \in InputDebits : transactions[k].date = 7
        /\ \E k \in InputDebits : transactions[k].date \notin KnownWeekendDays
        /\ \E k \in 1..Len(transactions) :
               /\ transactions[k].type = "credit"
               /\ transactions[k].date \in KnownWeekendDays
        /\ \A k \in InputDebits : transactions[k].date \in {3, 7, 38}
        /\ results[i].behavioral_analysis.behavioral_patterns.weekend_spending_ratio
               = (1000 * InputAmount({k \in InputDebits : transactions[k].date = 7}))
                     \div InputAmount(InputDebits)
        /\ results[i].behavioral_analysis.behavioral_patterns.weekend_spending_ratio
               \in 1..999

\* C14: for one debit of 1000 tagged "groceries" and one credit of 2000,
\* both in 2024-01, the result has monthly_spendings {2024-01: 1000.0},
\* monthly_savings {2024-01: 1000.0}, essential_spending_ratio 1.0,
\* high_risk_spending_ratio 0.0, spending_stability Medium, and an eligible
\* verdict whose reason names the essential-spending strength (first of the
\* four strengths, which all hold).
C14_SingleMonthScenario ==
    \A i \in Calls :
        LET r == results[i] IN
        /\ ~r.raised
        /\ r.financial_summary.monthly_spendings = ("2024-01" :> 1000 * FxOne)
        /\ r.financial_summary.monthly_savings = ("2024-01" :> 1000 * FxOne)
        /\ r.behavioral_analysis.behavioral_patterns.essential_spending_ratio = 1000
        /\ r.behavioral_analysis.behavioral_patterns.high_risk_spending_ratio = 0
        /\ r.behavioral_analysis.spending_stability = "Medium"
        /\ r.loan_eligibility = TRUE
        /\ r.eligibility_reason =
               "Eligible based on stable essential spending, "
               \o "controlled discretionary spending, "
               \o "consistent financial behavior, positive savings rate"

\* C14 witness: the scenario with the debit on a Saturday or Sunday and
\* listed after the credit was analysed and found eligible.
C14_Witness ==
    /\ Len(transactions) = 2
    /\ transactions[2].type = "debit"
    /\ transactions[2].amount = 1000 * FxOne
    /\ transactions[2].date \in KnownWeekendDays
    /\ transactions[1].amount = 2000 * FxOne
    /\ Len(results) >= 1
    /\ results[1].loan_eligibility
    /\ results[1].behavioral_analysis.behavioral_patterns.weekend_spending_ratio = 1000

\* the attempts of the delivery that failed in a way that is retried: a
\* timeout, a request error, or a 5xx response
RetriedFailure(post) ==
    \/ post.kind \in {"TimeoutException", "RequestError"}
    \/ (post.kind = "response" /\ post.status >= 500)

\* C15: send_webhook makes at most max_retries (3) POST attempts for one
\* delivery; it returns True at the first attempt that succeeds, making no
\* attempt after it; once three attempts have failed it returns False; a
\* fourth attempt is never made.
C15_AtMostThreeAttempts ==
    LET posts == delivery.posts
        n     == Len(posts)
    IN  /\ n <= 3
        /\ delivery.attempt <= 2
        /\ \A k \in 1..(n - 1) : ~posts[k].ok
        /\ (n >= 1 /\ posts[n].ok)
               => (delivery.pc = "done" /\ delivery.returned = <<TRUE>>)
        /\ delivery.returned = <<TRUE>> => (n >= 1 /\ posts[n].ok)
        /\ (delivery.pc = "done" /\ n = 3 /\ ~posts[3].ok)
               => delivery.returned = <<FALSE>>
        /\ (delivery.pc = "done" /\ \A k \in 1..n : RetriedFailure(posts[k]))
               => (n = 3 /\ delivery.returned = <<FALSE>>)
        /\ delivery.pc = "done" <=> delivery.returned # <<>>

\* C15 witness: three attempts failed, with a timeout, a 5xx response and a
\* request error, and False was returned.
C15_Witness ==
    /\ delivery.pc = "done"
    /\ delivery.returned = <<FALSE>>
    /\ Len(delivery.posts) = 3
    /\ delivery.posts[1].kind = "TimeoutException"
    /\ delivery.posts[2].status = 503
    /\ delivery.posts[3].kind = "RequestError"

\* C16: a 4xx response is never retried: the attempt that receives a status
\* in [400, 500) is the last one, the call returns False with it, and no
\* backoff sleep follows it; after a 5xx response, a timeout or a request
\* error the next step is the next attempt while attempts remain.
C16_ClientErrorNotRetried ==
    /\ [](\A k \in 1..Len(delivery.posts) :
            (delivery.posts[k].kind = "response"
             /\ delivery.posts[k].status \in 400..499)
                => /\ k = Len(delivery.posts)
                   /\ delivery.pc = "done"
                   /\ delivery.returned = <<FALSE>>
                   /\ Len(delivery.sleeps) = k - 1)
    /\ [][(/\ delivery.pc = "failed"
           /\ RetriedFailure(delivery.posts[Len(delivery.posts)])
           /\ Len(delivery.posts) < 3)
              => /\ delivery'.pc = "post"
                 /\ delivery'.attempt = delivery.attempt + 1
                 /\ delivery'.returned = <<>>]_vars

\* C16 witness: a 5xx response was followed by a second attempt, which
\* received 404 and ended the call with False after one sleep.
C16_Witness ==
    /\ Len(delivery.posts) = 2
    /\ delivery.posts[1].status = 500
    /\ delivery.posts[2].status = 404
    /\ delivery.returned = <<FALSE>>
    /\ delivery.sleeps = <<1>>

\* C17: the wait after failed attempt k (0-based) is retry_delay * 2^k
\* seconds: 1 s after the first, 2 s after the second; there is a wait
\* between two attempts and none after the last failed attempt.
C17_ExponentialBackoff ==
    LET sleeps == delivery.sleeps
        n      == Len(delivery.posts)
    IN  /\ sleeps \in {<<>>, <<1>>, <<1, 2>>}
        /\ delivery.pc = "post" => Len(sleeps) = n
        /\ delivery.pc \in {"failed", "done"} => Len(sleeps) = n - 1

\* C17 witness: three failed attempts, waits of 1 s and 2 s between them,
\* and False returned with no third wait.
C17_Witness ==
    /\ delivery.pc = "done"
    /\ delivery.returned = <<FALSE>>
    /\ Len(delivery.posts) = 3
    /\ \A k \in 1..3 : RetriedFailure(delivery.posts[k])
    /\ delivery.sleeps = <<1, 2>>

\* C18: the delivery of the result to WEBHOOK_URL made by /api/analyze is
\* retried: when its first attempt fails with a timeout, a connection error
\* or a 5xx response, a further attempt is made before the request ends.
C18_AnalyzeDeliveryRetried ==
    (/\ request.pc = "done"
     /\ request.endpoint = "analyze"
     /\ Len(request.posts) >= 1
     /\ RetriedFailure(request.posts[1]))
        => Len(request.posts) >= 2

\* C19: a notifier failure never invalidates a stored result: in
\* /api/analyze, once save_ml_result has succeeded, no later step changes
\* the store, and the request ends with the success response carrying the
\* analysis, whatever the outcome of the delivery; the row stored is the
\* one of this analysis; a request to /api/webhook never changes the store.
C19_StoredResultKept ==
    /\ [][(request.pc # "none" /\ (request.saved \/ request.endpoint = "webhook"))
              => store' = store]_vars
    /\ [](request.pc \in {"webhook", "done"} /\ request.endpoint = "analyze"
          /\ request.saved
              => /\ Len(store) >= 1
                 /\ store[Len(store)].metrics = request.analysis_result
                 /\ store[Len(store)].user_id = request.user_id)
    /\ [](request.pc = "done" /\ request.endpoint = "analyze" /\ request.saved
              => /\ request.response[1].success
                 /\ request.response[1].status = 200
                 /\ request.response[1].data = request.analysis_result)

\* C19 witness: /api/analyze saved the result beside an earlier row, the
\* delivery failed with a 5xx response, and the request ended with the
\* success response and both rows in the store.
C19_Witness ==
    /\ request.pc = "done"
    /\ request.endpoint = "analyze"
    /\ request.saved
    /\ Len(request.posts) = 1
    /\ request.posts[1].status = 503
    /\ ~request.posts[1].ok
    /\ Len(store) = 2
    /\ request.response[1].success

\* C20: two calls interleaved on one shared model each return the result
\* the call gives when it runs alone, whatever the order of their steps;
\* the model's category sets and weekend days and the lists handed in are
\* never changed.
C20_CallsIsolated ==
    /\ model = NewModel
    /\ \A c \in Callers :
           /\ calls[c].transactions = calls[c].given
           /\ calls[c].pc = "done"
                  => Timeless(calls[c].result[1])
                         = Timeless(AnalyzeTransactions(NewModel, calls[c].given, 0))

\* C20 witness: the first call started first and returned last, the second
\* ran in between on a different list, and the two results differ.
C20_Witness ==
    /\ calls[1].pc = "done" /\ calls[2].pc = "done"
    /\ calls[1].given # <<>> /\ calls[2].given # <<>>
    /\ calls[1].given # calls[2].given
    /\ calls[1].started < calls[2].started
    /\ calls[2].result[1].created_at < calls[1].result[1].created_at
    /\ Timeless(calls[1].result[1]) # Timeless(calls[2].result[1])

\* the months of the list in which a debit is dated
InputDebitMonths == {Strftime(transactions[k].date) : k \in InputDebits}

\* C21: spending_stability is Medium whenever fewer than 2 distinct months
\* hold a debit (a month with credits only does not count); otherwise, with
\* cv = stddev / (mean + 1e-6) of the monthly debit totals and the
\* population stddev, it is High iff cv < 0.2, Medium iff 0.2 <= cv < 0.4
\* and Low iff cv >= 0.4.  With n months, totals x, S their sum and
\* sq the sum of (n * x - S)^2, cv < t / 10 is 100 * sq < t^2 * n * (S + n)^2.
C21_SpendingStability ==
    \A i \in Analysed :
        LET st == results[i].behavioral_analysis.spending_stability
            n  == Cardinality(InputDebitMonths)
            S  == InputAmount(InputDebits)
            sq == SumSet([m \in InputDebitMonths |->
                            (n * InputTotal(m, "debit") - S)
                                * (n * InputTotal(m, "debit") - S)],
                         InputDebitMonths)
            below02 == 25 * sq < n * (S + n * Eps) * (S + n * Eps)
            below04 == 25 * sq < 4 * n * (S + n * Eps) * (S + n * Eps)
        IN  IF n < 2 THEN st = "Medium"
            ELSE /\ (st = "High") <=> below02
                 /\ (st = "Medium") <=> (~below02 /\ below04)
                 /\ (st = "Low") <=> ~below04

\* C21 witness: a list with debits in one month only and credits alone in
\* another, whose monthly spendings (the credit-only month counted as 0)
\* vary by more than 0.4, was analysed and its stability is Medium.
C21_Witness ==
    \E i \in Analysed :
        /\ Cardinality(InputMonths) = 2
        /\ Cardinality(InputDebitMonths) = 1
        /\ InputAmount(InputDebits) > 0
        /\ results[i].financial_summary.spending_volatility >= 400
        /\ results[i].behavioral_analysis.spending_stability = "Medium"

\* the entries of a list of factors
Entries(factors) == {factors[k] : k \in 1..Len(factors)}

\* C22: the loan_eligibility_factors of every result are non-empty; for a
\* non-empty input each of the four factors (essential ratio > 0.5,
\* high-risk ratio < 0.15, stability High or Medium, at least 2 months with
\* an income cv < 0.3) is listed, once, exactly when its condition holds,
\* and "Standard risk profile" is listed iff none of the four holds, and it
\* is then the only entry.  The income cv is taken from the monthly credit
\* totals of the input: cv < 0.3 is 100 * sq < 9 * n * (S + n)^2.
C22_EligibilityFactors ==
    /\ \A i \in Calls :
           ~results[i].raised
               => results[i].risk_assessment_details.loan_eligibility_factors # <<>>
    /\ \A i \in Analysed :
           LET r  == results[i]
               f  == r.risk_assessment_details.loan_eligibility_factors
               p  == r.behavioral_analysis.behavioral_patterns
               n  == Cardinality(InputMonths)
               S  == SumSet([m \in InputMonths |-> InputTotal(m, "credit")], InputMonths)
               sq == SumSet([m \in InputMonths |->
                               (n * InputTotal(m, "credit") - S)
                                   * (n * InputTotal(m, "credit") - S)],
                            InputMonths)
               c1 == p.essential_spending_ratio > 500
               c2 == p.high_risk_spending_ratio < 150
               c3 == r.behavioral_analysis.spending_stability \in {"High", "Medium"}
               c4 == n >= 2 /\ 100 * sq < 9 * n * (S + n * Eps) * (S + n * Eps)
           IN  /\ Len(f) = Cardinality(Entries(f))
               /\ ("High essential spending ratio" \in Entries(f)) <=> c1
               /\ ("Low discretionary spending" \in Entries(f)) <=> c2
               /\ ("Stable spending pattern" \in Entries(f)) <=> c3
               /\ ("Stable income" \in Entries(f)) <=> c4
               /\ ("Standard risk profile" \in Entries(f))
                      <=> (~c1 /\ ~c2 /\ ~c3 /\ ~c4)
               /\ ("Standard risk profile" \in Entries(f))
                      => f = <<"Standard risk profile">>

\* C22 witness: an analysed list for which none of the four conditions
\* holds (two months, stability Low) and whose only factor is the fallback.
C22_Witness ==
    \E i \in Analysed :
        LET r == results[i]
            p == r.behavioral_analysis.behavioral_patterns
        IN  /\ p.essential_spending_ratio <= 500
            /\ p.high_risk_spending_ratio >= 150
            /\ r.behavioral_analysis.spending_stability = "Low"
            /\ Cardinality(InputMonths) = 2
            /\ r.risk_assessment_details.loan_eligibility_factors
                   = <<"Standard risk profile">>

\* the sum of the six components of the score, each restated from the
\* published values of a summary fs and a behavioural analysis ba: the
\* thousandths of the five rounded values, the mean of the savings rates
ComponentSum(fs, ba) ==
    LET p      == ba.behavioral_patterns
        an     == ba.income_and_spending_analysis
        months == DOMAIN an
        f      == fs.transaction_frequency
        freq_risk == IF f < 20 THEN 10 ELSE IF f > 300 THEN 5 ELSE 0
        fixed  == (fs.income_volatility + fs.spending_volatility) * 50
                  + (1000 - fs.consistency_score) * 20
                  + p.high_risk_spending_ratio * 30
                  + (IF p.weekend_spending_ratio > 200
                     THEN (p.weekend_spending_ratio - 200) * 20 ELSE 0)
                  + (IF p.essential_spending_ratio < 600
                     THEN (600 - p.essential_spending_ratio) * 15 ELSE 0)
                  + freq_risk * 1000
        \* 0.1 - mean(savings_rate), as a rational
        short  == RatSub(<<1, 10>>,
                         RatScale(RatSumSet([m \in months |-> an[m].savings_rate],
                                            months),
                                  1, Cardinality(months)))
        savings_risk == IF short[1] > 0 THEN RatScale(short, 25, 1) ELSE RatZero
    IN  RatAdd(Rat(fixed, 1000), savings_risk)

\* C23: the score before rounding is clamp(volatility_score +
\* consistency_bonus + behavioral_risk + essential_bonus + savings_risk +
\* freq_risk, 0, 100), every component computed from the values the same
\* result publishes in its financial summary and behavioural analysis;
\* freq_risk is 10 for transaction_frequency < 20, 5 for > 300 and 0 for
\* 20..300 inclusive.  The result reports that score rounded to a tenth.
C23_ScoreIsComponentSum ==
    \A c \in 1..Len(calls) :
        LET call == calls[c] IN
        /\ call.pc \in {"category", "eligibility", "return", "done"} =>
               LET sum == ComponentSum(call.financial_summary, call.behavioral_analysis)
               IN  call.overall_risk_score =
                       (IF sum[1] < 0 THEN RatZero
                        ELSE IF sum[1] > 100 * sum[2] THEN <<100, 1>>
                        ELSE sum)
        /\ (call.pc = "done" /\ ~call.result[1].raised) =>
               LET r   == call.result[1]
                   sum == ComponentSum(r.financial_summary, r.behavioral_analysis)
               IN  r.overall_risk_score =
                       (IF sum[1] < 0 THEN 0
                        ELSE IF sum[1] > 100 * sum[2] THEN 1000
                        ELSE RoundHalfEven(10 * sum[1], sum[2]))

\* C23 witness: a result with transaction_frequency 300 was returned whose
\* score is the unclamped sum with a frequency component of 0, while the
\* same metrics with fewer than 20 transactions score 10 more.
C23_Witness ==
    \E c \in 1..Len(calls) :
        LET call == calls[c] IN
        /\ call.pc = "done"
        /\ call.result[1].financial_summary.transaction_frequency = 300
        /\ call.overall_risk_score =
               ComponentSum(call.financial_summary, call.behavioral_analysis)
        /\ RatAdd(call.overall_risk_score, <<10, 1>>) =
               ComponentSum([call.financial_summary EXCEPT !.transaction_frequency = 19],
                            call.behavioral_analysis)
        /\ RatLess(RatZero, call.overall_risk_score)
        /\ RatLess(call.overall_risk_score, <<90, 1>>)

\* the signed savings rate of a month of the list, from its totals
InputSavingsRate(m) ==
    Rat(InputTotal(m, "credit") - InputTotal(m, "debit"), InputTotal(m, "credit") + Eps)

\* the arithmetic mean of the signed rates of the months of the list
InputAvgSavingsRate ==
    RatScale(RatSumSet([m \in InputMonths |-> InputSavingsRate(m)], InputMonths),
             1, Cardinality(InputMonths))

\* C24: the per-month savings_rate is signed and unclamped, (income -
\* spending) / (income + 1e-6): in every month whose debit total exceeds
\* its credit total it is negative while monthly_savings of that month is 0.
\* The avg_savings_rate of the scorer and of rejection rule 4 is the
\* arithmetic mean of the signed per-month values: the reported score is
\* the rounded clamped component sum with that mean, and when rules 1 to 3
\* do not hold the verdict is the rule-4 rejection iff the mean is < -0.1.
C24_SignedSavingsRate ==
    \A i \in Analysed :
        LET r  == results[i]
            an == r.behavioral_analysis.income_and_spending_analysis
            h  == RuleHolds(r)
            sum == ComponentSum(r.financial_summary,
                       [r.behavioral_analysis EXCEPT !.income_and_spending_analysis =
                           [m \in InputMonths |->
                               [savings_rate |-> InputSavingsRate(m)]]])
        IN  /\ DOMAIN an = InputMonths
            /\ \A m \in InputMonths :
                   LET c  == InputTotal(m, "credit")
                       d  == InputTotal(m, "debit")
                       sr == an[m].savings_rate
                   IN  /\ sr[2] > 0
                       /\ sr[1] * (c + Eps) = (c - d) * sr[2]
                       /\ d > c => /\ sr[1] < 0
                                   /\ r.financial_summary.monthly_savings[m] = 0
            /\ AvgSavingsRate(r.behavioral_analysis) = InputAvgSavingsRate
            /\ r.overall_risk_score =
                   (IF sum[1] > 100 * sum[2] THEN 1000
                    ELSE RoundHalfEven(10 * sum[1], sum[2]))
            /\ (~h[1] /\ ~h[2] /\ ~h[3]) =>
                   ((r.eligibility_reason = Rule4Reason)
                        <=> RatLess(InputAvgSavingsRate, <<-1, 10>>))

\* C24 witness: one month spends more than it earns (negative rate,
\* savings 0), another saves (positive rate), the mean is below -0.1 and
\* the list is rejected by rule 4.
C24_Witness ==
    \E i \in Analysed :
        LET r  == results[i]
            an == r.behavioral_analysis.income_and_spending_analysis
        IN  /\ \E m \in InputMonths :
                   /\ InputTotal(m, "debit") > InputTotal(m, "credit")
                   /\ an[m].savings_rate[1] < 0
                   /\ r.financial_summary.monthly_savings[m] = 0
            /\ \E m \in InputMonths : an[m].savings_rate[1] > 0
            /\ RatLess(InputAvgSavingsRate, <<-1, 10>>)
            /\ r.eligibility_reason = Rule4Reason

\* C25: the result of analyze_transactions does not depend on the order of
\* the list: the calls made on the same transactions, before and after the
\* caller reordered them, return results equal in every field except
\* created_at, each equal to the result for the list in its present order; and the normalized rows
\* of a list are the rows of its transactions sorted ascending by date.
C25_OrderIndependent ==
    /\ \A i \in Calls : \A j \in Calls :
           Timeless(results[i]) = Timeless(results[j])
    /\ \A i \in Calls :
           Timeless(results[i]) = Timeless(AnalyzeTransactions(NewModel, transactions, 0))
    /\ LET df == TransactionsToDataframe(NewModel, transactions)
       IN  /\ Len(df) = Len(transactions)
           /\ \A a \in Rows(df) : \A b \in Rows(df) :
                  a < b => df[a].date <= df[b].date
           /\ \A a \in Rows(df) :
                  Cardinality({b \in Rows(df) : df[b] = df[a]})
                      = Cardinality({k \in 1..Len(transactions) :
                            /\ transactions[k].date = df[a].date
                            /\ transactions[k].amount = df[a].amount
                            /\ transactions[k].type = df[a].type
                            /\ LowerCased[transactions[k].category] = df[a].category})

\* C25 witness: three transactions of two dates were analysed in the order
\* the caller held them at first and once more later; the list is now in
\* another order, the later date in front and two different transactions
\* of one date behind it, and both results are the result for this order.
C25_Witness ==
    /\ Len(results) = 2
    /\ ~results[1].raised
    /\ results[1].created_at = 0
    /\ Len(transactions) = 3
    /\ transactions \notin PermutedInputs
    /\ transactions[1].date > transactions[2].date
    /\ transactions[2].date = transactions[3].date
    /\ transactions[2] # transactions[3]
    /\ Timeless(results[2]) = Timeless(AnalyzeTransactions(NewModel, transactions, 0))

\* C26: because the guard against a zero income is the additive 1e-6, a
\* list of at most 12 months in which some month has a debit total >= 1.0
\* and a credit total of 0 has for that month the savings_rate
\* -debit / 1e-6 (minus the debit total counted in units of 1e-6), and its
\* overall_risk_score is exactly 100.0, its category high and its verdict
\* the rule-1 rejection, whatever the other months hold.
C26_ZeroIncomeMonth ==
    \A i \in Analysed :
        \A m \in InputMonths :
            (/\ Cardinality(InputMonths) <= 12
             /\ InputTotal(m, "debit") >= FxOne
             /\ InputTotal(m, "credit") = 0)
                => LET r == results[i]
                   IN  /\ r.behavioral_analysis.income_and_spending_analysis[m]
                              .savings_rate = <<-InputTotal(m, "debit"), 1>>
                       /\ r.overall_risk_score = 1000
                       /\ r.risk_category = "high"
                       /\ ~r.loan_eligibility
                       /\ r.eligibility_reason = Rule1Reason

\* C26 witness: three months; one holds a single essential debit of 1.0 and
\* no credit, the two others credits alone (positive savings rates); the
\* result is 100.0, high, rejected by rule 1.
C26_Witness ==
    \E i \in Analysed :
        LET r  == results[i]
            an == r.behavioral_analysis.income_and_spending_analysis
        IN  /\ Cardinality(InputMonths) = 3
            /\ InputTotal("2024-01", "debit") = FxOne
            /\ InputTotal("2024-01", "credit") = 0
            /\ an["2024-02"].savings_rate[1] > 0
            /\ an["2024-03"].savings_rate[1] > 0
            /\ r.behavioral_analysis.behavioral_patterns.essential_spending_ratio = 1000
            /\ r.overall_risk_score = 1000
            /\ r.eligibility_reason = Rule1Reason

C28_HighAndEligible ==
    \A i \in Analysed :
        LET r == results[i]
            s == UnroundedScore(r)
        IN  /\ r.loan_eligibility =>
                   /\ ~RatLess(<<75, 1>>, s)
                   /\ r.overall_risk_score <= 750
            /\ (r.loan_eligibility /\ r.risk_category = "high") =>
                   /\ ~RatLess(s, <<70, 1>>)
                   /\ r.overall_risk_score \in 700..750
                   /\ \A k \in 1..5 : ~RuleHolds(r)[k]
            /\ r.risk_category = "high" <=> ~RatLess(s, <<70, 1>>)

\* C28 witness: a result of category high that is loan-eligible, its
\* reported score between 70.0 and 75.0.
C28_Witness ==
    \E i \in Analysed :
        /\ results[i].risk_category = "high"
        /\ results[i].loan_eligibility
        /\ results[i].overall_risk_score \in 700..750


\* the steps of /api/analyze that may follow one another
AnalyzeOrder ==
    {<<"user", "transactions">>, <<"user", "done">>,
     <<"transactions", "save">>, <<"transactions", "done">>,
     <<"save", "webhook">>, <<"save", "done">>,
     <<"webhook", "done">>}

\* C29: in /api/analyze the steps follow the order find user, list
\* transactions and analyze, save, deliver, respond.  The store changes only
\* in the save step, for a user that was found and a non-empty list, by the
\* row of the analysis of that list, never the empty-input result; an empty
\* history ends with 404 and nothing saved or sent.  A delivery is made only
\* after save_ml_result returned a result and only with WEBHOOK_URL set, and
\* it carries that stored analysis.  A save that returns nothing ends the
\* request with 500 and no delivery.  The response is the last step.
C29_AnalyzeStepOrder ==
    /\ [][request.endpoint = "analyze"
              => <<request.pc, request'.pc>> \in AnalyzeOrder]_vars
    /\ [][(request.endpoint = "analyze" /\ store' # store)
              => /\ request.pc = "save"
                 /\ request.user # <<>>
                 /\ request.fetched # <<>>
                 /\ store' = Append(store, MlResultRow(request.user_id,
                                                       request.analysis_result, clock))
                 /\ Timeless(request.analysis_result)
                        = Timeless(AnalyzeTransactions(NewModel, request.fetched, 0))
                 /\ Timeless(request.analysis_result)
                        # Timeless(GenerateEmptyResult(0))]_vars
    /\ [][(request.endpoint = "analyze" /\ request.pc = "transactions"
           /\ request'.fetched = <<>>)
              => /\ request'.pc = "done"
                 /\ request'.response[1].status = 404
                 /\ store' = store
                 /\ request'.posts = <<>>
                 /\ ~request'.saved]_vars
    /\ []((request.endpoint = "analyze"
           /\ (request.pc = "webhook" \/ request.posts # <<>>))
              => /\ request.saved
                 /\ request.webhook_url # ""
                 /\ request.fetched # <<>>
                 /\ Len(request.posts) <= 1
                 /\ Len(store) >= 1
                 /\ store[Len(store)].metrics = request.analysis_result
                 /\ Timeless(request.analysis_result)
                        # Timeless(GenerateEmptyResult(0)))
    /\ [][(request.endpoint = "analyze" /\ request.pc = "save" /\ ~request'.saved)
              => /\ request'.pc = "done"
                 /\ request'.response
                        = <<HttpError(500, "Failed to save analysis results to database")>>
                 /\ request'.posts = <<>>]_vars
    /\ [][(request.endpoint = "analyze" /\ request.pc = "save" /\ request'.saved)
              => /\ store' # store
                 /\ request'.pc = IF request.webhook_url # "" THEN "webhook" ELSE "done"]_vars
    /\ []((request.endpoint = "analyze" /\ request.pc = "done" /\ ~request.saved)
              => /\ request.posts = <<>>
                 /\ ~request.response[1].success)
    /\ [](request.endpoint = "analyze"
              => ((request.pc = "done") <=> (request.response # <<>>)))

\* C29 witness: a request to /api/analyze found the user and a non-empty
\* list, stored the row of its analysis, delivered it once to WEBHOOK_URL
\* and answered with the analysis.
C29_Witness ==
    /\ request.endpoint = "analyze"
    /\ request.pc = "done"
    /\ request.user # <<>>
    /\ request.fetched # <<>>
    /\ request.saved
    /\ request.webhook_url # ""
    /\ Len(request.posts) = 1
    /\ request.posts[1].ok
    /\ Len(store) >= 1
    /\ store[Len(store)].metrics = request.analysis_result
    /\ request.response = <<AnalyzeResponse(request.analysis_result)>>


\* the task of the last entry of the list that names u
LastTask(u) ==
    delivery.tasks[CHOOSE k \in 1..Len(delivery.urls) :
                       /\ delivery.urls[k] = u
                       /\ \A j \in (k + 1)..Len(delivery.urls) : delivery.urls[j] # u]

\* the task returned True
Succeeded(task) == task.pc = "done" /\ task.returned = <<TRUE>>

\* C30 as stated: the map returned holds, for every URL given, true exactly
\* when the delivery to that URL succeeded, for each delivery made to it.
C30_EveryDeliveryRecorded ==
    delivery.pc = "returned"
        => \A k \in 1..Len(delivery.urls) :
               /\ delivery.urls[k] \in DOMAIN delivery.results
               /\ delivery.results[delivery.urls[k]] = Succeeded(delivery.tasks[k])

\* C30: send_multiple_webhooks creates one task per entry of the list before
\* any task runs and before it awaits one; it returns a map whose keys are
\* the distinct URLs of the list, and the value of a URL is the outcome of
\* the delivery started for the URL's last entry in the list (the one
\* delivery, when the URL is given once): true exactly when that task
\* returned True, false when it returned False or raised.  A step of one
\* task changes no other task, and an entry of the map changes only when a
\* task for the same URL is awaited.
C30_LastDeliveryRecorded ==
    /\ [](delivery.pc # "called"
              => /\ Len(delivery.tasks) = Len(delivery.urls)
                 /\ \A k \in 1..Len(delivery.urls) :
                        delivery.tasks[k].url = delivery.urls[k])
    /\ [](delivery.pc = "called"
              => delivery.tasks = <<>> /\ DOMAIN delivery.results = {})
    /\ [](delivery.pc # "called"
              => DOMAIN delivery.results
                     = {delivery.urls[k] : k \in 1..(delivery.next - 1)})
    /\ [](delivery.pc = "returned"
              => /\ DOMAIN delivery.results
                        = {delivery.urls[k] : k \in 1..Len(delivery.urls)}
                 /\ \A k \in 1..Len(delivery.tasks) :
                        delivery.tasks[k].pc \in {"done", "raised"}
                 /\ \A u \in DOMAIN delivery.results :
                        delivery.results[u] = Succeeded(LastTask(u)))
    /\ [](\A k \in 1..Len(delivery.tasks) :
              LET task == delivery.tasks[k]
              IN  /\ task.pc = "raised" => task.posts = <<>>
                  /\ task.pc = "done"
                         => (Succeeded(task) <=> task.posts[Len(task.posts)].ok))
    /\ [][Len(delivery.tasks) = Len(delivery'.tasks)
              => \A j, k \in 1..Len(delivery.tasks) :
                     (delivery'.tasks[j] # delivery.tasks[j]
                      /\ delivery'.tasks[k] # delivery.tasks[k]) => j = k]_vars
    /\ [][\A u \in DOMAIN delivery.results :
              /\ u \in DOMAIN delivery'.results
              /\ delivery'.results[u] # delivery.results[u]
                     => delivery.urls[delivery.next] = u]_vars

\* C30 witness: one URL was given twice, the delivery of its first entry
\* succeeded, the delivery of its second entry used up its three attempts,
\* and the map returned holds false for the URL.
C30_Witness ==
    /\ delivery.pc = "returned"
    /\ Len(delivery.urls) = 2
    /\ delivery.urls[1] = delivery.urls[2]
    /\ Succeeded(delivery.tasks[1])
    /\ Len(delivery.tasks[2].posts) = 3
    /\ delivery.tasks[2].returned = <<FALSE>>
    /\ DOMAIN delivery.results = {delivery.urls[1]}
    /\ ~delivery.results[delivery.urls[1]]

=============================================================================
